---- MODULE Spec2Model ----
(***************************************************************************)
(* Smart-grid telemetry server (src/server/): the power aggregator         *)
(* (PowerSumProcessor), the key cache (AESManager), the worker pool        *)
(* (ThreadPool) and the connection handler / orchestrator                  *)
(* (SmartGridServer), each as a state machine translated from its code.    *)
(*                                                                         *)
(* One module, several specifications over disjoint groups of variables:   *)
(*   SpecAgg    - threads calling PowerSumProcessor::add_reading           *)
(*   SpecKeys   - threads calling AESManager::decrypt_data /               *)
(*                get_or_generate_key                                      *)
(*   SpecPool   - ThreadPool workers, a submitter and the destructor       *)
(*   Spec       - SmartGridServer: accept loop, handlers on pool workers,  *)
(*                process_reading, finalize_benchmark, stop                *)
(***************************************************************************)
EXTENDS Integers, Sequences, FiniteSets, TLC

(***************************************************************************)
(* Bounds of the model.                                                    *)
(***************************************************************************)
\* threads that call into the aggregator in SpecAgg
NumThreads == 2
\* largest window size (target_count) tried
MaxWindow == 3
\* largest window-count benchmark target tried (0 = none)
MaxSumTarget == 1
\* add_reading calls per run
MaxCalls == 5
\* tasks submitted to the pool per run
MaxTasks == 3
\* header lines received per run, over all connections
MaxHeaders == 2

Threads == 1..NumThreads
\* the connections peers make in a run, named in the order accept returns them
Connections == {1, 2}
NoThread == 0
\* power values fed to add_reading (watts)
Powers == {100, 200, 300}

RECURSIVE SumSeq(_)
\* the loop `for (double p : power_readings) sum += p;`
SumSeq(s) == IF s = <<>> THEN 0 ELSE s[1] + SumSeq(Tail(s))

VARIABLES
  \* ---- PowerSumProcessor (src/server/power_processor.hpp)
  target_count,            \* size_t target_count
  power_readings,          \* std::vector<double>
  current_count,           \* size_t current_count
  total_sums,              \* size_t total_sums
  benchmark_sum_target,    \* size_t benchmark_sum_target
  callback_set,            \* benchmark_complete_callback holds a target
  readings_mutex,          \* holder of readings_mutex, or NoThread
  \* ---- AESManager (src/server/aes_manager.hpp)
  device_keys,             \* device id -> key, NoKey where the map has no entry
  keys_readers,            \* threads holding keys_mutex shared
  keys_writer,             \* thread holding keys_mutex exclusively, or NoThread
  \* ---- ThreadPool (src/server/thread_pool.hpp)
  tasks,                   \* std::queue of tasks, each task named by its id
  stop,                    \* std::atomic<bool> stop
  sub_pc,                  \* position of the thread that calls enqueue
  sub_task,                \* the task that thread is submitting
  dtor_pc,                 \* position of the thread that runs ~ThreadPool
  \* ---- SmartGridServer (src/server/server.hpp)
  server_fd,               \* "open" while the listening socket is open, else "closed"
  total_readings,          \* std::atomic<size_t> total_readings
  connected_devices,       \* std::atomic<size_t> connected_devices
  started,                 \* std::atomic<bool> started
  first_read_time,         \* "unset" until process_reading stores the clock in it
  benchmark_target,        \* size_t benchmark_target (readings)
  srv_sum_target,          \* SmartGridServer's own size_t benchmark_sum_target
  metrics_file,            \* TRUE when metrics_file is not the empty string
  done,                    \* std::atomic<bool> done
  finalized,               \* the static std::atomic<bool> of finalize_benchmark
  aborted,                 \* std::terminate was called: the process is gone
  \* ---- the outside world
  conn_open,               \* accepted sockets the server has not closed
  metrics,                 \* records appended to the metrics file
  \* ---- per-thread position and locals
  pc,                      \* thread -> position in the code
  device_id,               \* thread -> device_id argument of the call in progress
  encrypted_data,          \* thread -> encrypted_data argument, NoData outside decrypt_data
  key,                     \* thread -> key returned by get_or_generate_key
  task,                    \* worker -> the task it took from the queue, NoTask if none
  data_length,             \* handler -> data_length parsed from the header
  reading,                 \* handler -> the MeterReading being processed
  total,                   \* handler -> local total of process_reading
  fin_from,                \* handler -> caller of the finalize_benchmark in progress
  outcome,                 \* thread -> value returned or error thrown by the last call
  \* ---- history of the run (not program state)
  added,                   \* values pushed, in lock-acquisition order
  emitted,                 \* windows closed: [k |-> call index, sum |-> sum, n |-> total_sums]
  callback_calls,          \* invocations of benchmark_complete_callback
  derivations,             \* device id -> executions of pbkdf2_sha256 for it
  returned,                \* [dev, key] of every get_or_generate_key call that returned
  accepted,                \* tasks enqueue put in the queue
  rejected,                \* tasks enqueue refused
  notifications,           \* notify_one calls made by enqueue
  dequeued,                \* tasks in the order workers took them from the queue
  finished,                \* tasks whose call returned
  conns_accepted,          \* connections accept has returned
  headers_read,            \* header lines received from peers
  conn_drops,              \* connection -> messages dropped on a decrypt or decode error
  origin_writes,           \* stores to first_read_time
  finalize_passed,         \* finalize_benchmark calls that passed both exchanges
  decoded,                 \* readings parse_binary_reading has returned
  alerts,                  \* Logger::alert calls made by process_reading
  oob_reads,               \* bytes parse_binary_reading read past the end of its input
  sent                     \* the block contents the peers of this run send

aggVars == <<target_count, power_readings, current_count, total_sums,
             benchmark_sum_target, callback_set, readings_mutex,
             added, emitted, callback_calls>>
keyVars == <<device_keys, keys_readers, keys_writer, derivations, returned>>
locVars == <<device_id, encrypted_data, key, outcome>>
poolVars == <<tasks, stop, sub_pc, sub_task, dtor_pc, task,
              accepted, rejected, notifications, dequeued, finished>>
srvVars == <<server_fd, total_readings, connected_devices, started,
             first_read_time, benchmark_target, srv_sum_target, metrics_file,
             done, finalized, aborted, conn_open, metrics, conns_accepted,
             headers_read, conn_drops, origin_writes,
             finalize_passed>>
hdlVars == <<data_length, reading, total, fin_from>>
obsVars == <<decoded, alerts, oob_reads>>
thrVars == <<pc, locVars, hdlVars>>
vars == <<aggVars, keyVars, poolVars, srvVars, thrVars, obsVars, sent>>

\* what an action of one component leaves alone
notAgg == <<keyVars, poolVars, srvVars, locVars, hdlVars, obsVars, sent>>
notKeys == <<aggVars, poolVars, srvVars, hdlVars, obsVars, sent>>
notPool == <<aggVars, keyVars, srvVars, locVars, hdlVars, obsVars, sent>>

(***************************************************************************)
(* Strings are sequences of characters.                                    *)
(***************************************************************************)
\* std::string::resize(n, c): truncate, or pad with c
Resize(str, n, c) ==
  IF Len(str) >= n THEN SubSeq(str, 1, n)
  ELSE str \o [i \in 1..(n - Len(str)) |-> c]

\* the characters std::stoull skips before the number
IsSpace(c) == c \in {" ", "\t", "\n", "\r"}
\* decimal digits and their values
Digits == {"0", "1", "2", "3", "4", "5", "6", "7", "8", "9"}
DigitVal(c) ==
  CASE c = "0" -> 0 [] c = "1" -> 1 [] c = "2" -> 2 [] c = "3" -> 3
    [] c = "4" -> 4 [] c = "5" -> 5 [] c = "6" -> 6 [] c = "7" -> 7
    [] c = "8" -> 8 [] c = "9" -> 9

\* std::string::find(ch): the first position of ch (from 1), 0 for npos
Find(str, ch) ==
  IF \E i \in 1..Len(str) : str[i] = ch
  THEN CHOOSE i \in 1..Len(str) : str[i] = ch /\ \A j \in 1..(i - 1) : str[j] # ch
  ELSE 0

RECURSIVE SkipSpaces(_)
SkipSpaces(str) ==
  IF str # <<>> /\ IsSpace(str[1]) THEN SkipSpaces(Tail(str)) ELSE str

RECURSIVE DigitsValue(_, _)
\* the value of the longest prefix of digits of str, after acc
DigitsValue(str, acc) ==
  IF str # <<>> /\ str[1] \in Digits
  THEN DigitsValue(Tail(str), 10 * acc + DigitVal(str[1]))
  ELSE acc

\* std::stoull(str): leading spaces skipped, then digits, anything after them
\* ignored; std::invalid_argument when no digit is there.  (Signs and values
\* beyond 64 bits are not among the headers tried.)
Stoull(str) ==
  LET rest == SkipSpaces(str)
  IN  IF rest # <<>> /\ rest[1] \in Digits
      THEN [ok |-> TRUE, value |-> DigitsValue(rest, 0)]
      ELSE [ok |-> FALSE, value |-> 0]

RECURSIVE StripCr(_)
\* read_line, server.cpp:168: every '\r' received is dropped
StripCr(str) ==
  IF str = <<>> THEN <<>>
  ELSE IF str[1] = "\r" THEN StripCr(Tail(str))
  ELSE <<str[1]>> \o StripCr(Tail(str))

\* read_line, server.cpp:163-171: the bytes before the first '\n', or all the
\* bytes received when the peer closed before sending one
ReadLine(received) ==
  LET nl == Find(received, "\n")
  IN  StripCr(IF nl = 0 THEN received ELSE SubSeq(received, 1, nl - 1))

\* the device identifiers used
DeviceIds == {<<"m", "1">>, <<"m", "2">>}

(***************************************************************************)
(* AESManager                                                              *)
(***************************************************************************)
\* the value of a key local or map slot that holds no key
NoKey == [password |-> <<>>, salt |-> <<>>, iterations |-> 0, key_length |-> 0]
\* the cipher block length decrypt_data requires (aes_manager.cpp:45)
BlockLen == 16
\* salt length (aes_manager.cpp:34)
SaltLen == 16
\* PBKDF2 iterations and key length (aes_manager.cpp:37)
Iterations == 100000
KeyLen == 32

\* "smart_meter_", the password prefix of line 35
PasswordPrefix == <<"s", "m", "a", "r", "t", "_", "m", "e", "t", "e", "r", "_">>

\* pbkdf2_sha256: PBKDF2-HMAC-SHA-256 as an injective function of its inputs
pbkdf2_sha256(password, salt, iterations, key_length) ==
  [password |-> password, salt |-> salt, iterations |-> iterations,
   key_length |-> key_length]

\* lines 33-37: the key derived for a device identifier
DerivedKey(id) ==
  pbkdf2_sha256(PasswordPrefix \o id, Resize(id, SaltLen, "0"), Iterations, KeyLen)

\* lines 51-63: the IV, the first 16 bytes of SHA-256(key || device_id)
DerivedIv(k, id) == [hash_of |-> <<k, id>>, bytes |-> 16]

\* a 13-byte reading: timestamp 1, device 7, 132.5 V, 5.0 A, 100 W, 60 Hz
SampleRecord == <<0, 0, 0, 1, 0, 7, 5, 45, 0, 50, 0, 100, 60>>
\* what a sender puts in a block: padded bytes, or bytes that are no valid padding
Padded(bytes) == [valid |-> TRUE, bytes |-> bytes]
BadPadding == [valid |-> FALSE, bytes |-> <<>>]
BlockContents == {Padded(SampleRecord), BadPadding}

\* AES-256-CBC of one padded block under (k, iv): the sender's side
Encrypt(k, iv, plaintext) == [key |-> k, iv |-> iv, plaintext |-> plaintext]

\* n bytes whose first block a sender encrypted for device id
SentData(n, id, contents) ==
  [len |-> n,
   block |-> Encrypt(DerivedKey(id), DerivedIv(DerivedKey(id), id), contents)]

\* ciphertexts a peer can send: one block for any device, with or without
\* valid padding, and data one byte short or one byte long
Ciphertexts ==
  {SentData(BlockLen, id, c) : id \in DeviceIds, c \in BlockContents}
  \cup {SentData(n, <<"m", "1">>, Padded(SampleRecord)) : n \in {BlockLen - 1, BlockLen + 1}}

\* the value of an encrypted_data local outside decrypt_data
NoData == [len |-> -1, block |-> Encrypt(NoKey, DerivedIv(NoKey, <<>>), BadPadding)]

\* values of the outcome local
NoOutcome == [kind |-> "none", bytes |-> <<>>]
Thrown(what) == [kind |-> what, bytes |-> <<>>]
Plaintext(bytes) == [kind |-> "plaintext", bytes |-> bytes]

\* lines 72-89: EVP_Decrypt*: the plaintext, or the failure of DecryptFinal
\* when key and IV are not the block's or the padding is invalid
DecryptBlock(k, iv, data) ==
  IF data.block.key = k /\ data.block.iv = iv /\ data.block.plaintext.valid
  THEN Plaintext(data.block.plaintext.bytes)
  ELSE Thrown("decrypt_error")

\* AESManager's implicit constructor
ManagerInit ==
  /\ device_keys = [id \in DeviceIds |-> NoKey]
  /\ keys_readers = {}
  /\ keys_writer = NoThread
  /\ derivations = [id \in DeviceIds |-> 0]
  /\ returned = {}

\* no call in progress
LocalsInit ==
  /\ pc = [t \in Threads |-> "idle"]
  /\ device_id = [t \in Threads |-> <<>>]
  /\ encrypted_data = [t \in Threads |-> NoData]
  /\ key = [t \in Threads |-> NoKey]
  /\ outcome = [t \in Threads |-> NoOutcome]

\* a length test that lets short input through
WrongLength_ShortOk(n) == n > BlockLen

\* the test of line 45
WrongLength(n) == n # BlockLen

\* decrypt_data, lines 45-47: the length error
DecLengthError(t) ==
  /\ pc[t] = "decrypt_data"
  /\ WrongLength(encrypted_data[t].len)
  /\ outcome' = [outcome EXCEPT ![t] = Thrown("length_error")]
  /\ pc' = [pc EXCEPT ![t] = "dec_throw"]
  /\ UNCHANGED <<keyVars, device_id, encrypted_data, key>>

\* decrypt_data, line 49: the call of get_or_generate_key
DecGetKey(t) ==
  /\ pc[t] = "decrypt_data"
  /\ ~WrongLength(encrypted_data[t].len)
  /\ pc' = [pc EXCEPT ![t] = "get_key"]
  /\ UNCHANGED notAgg

\* get_or_generate_key, line 20: shared_lock
GetKeySharedLock(t) ==
  /\ pc[t] = "get_key"
  /\ keys_writer = NoThread
  /\ keys_readers' = keys_readers \cup {t}
  /\ pc' = [pc EXCEPT ![t] = "get_key_shared"]
  /\ UNCHANGED <<device_keys, keys_writer, derivations, returned, locVars>>

\* get_or_generate_key, lines 21-24: found under the shared lock
GetKeySharedHit(t) ==
  /\ pc[t] = "get_key_shared"
  /\ device_keys[device_id[t]] # NoKey
  /\ key' = [key EXCEPT ![t] = device_keys[device_id[t]]]
  /\ returned' = returned \cup {[dev |-> device_id[t], key |-> device_keys[device_id[t]]]}
  /\ keys_readers' = keys_readers \ {t}
  /\ pc' = [pc EXCEPT ![t] = "get_key_ret"]
  /\ UNCHANGED <<device_keys, keys_writer, derivations, device_id,
                 encrypted_data, outcome>>

\* get_or_generate_key, lines 21-25: not found, the shared lock is released
GetKeySharedMiss(t) ==
  /\ pc[t] = "get_key_shared"
  /\ device_keys[device_id[t]] = NoKey
  /\ keys_readers' = keys_readers \ {t}
  /\ pc' = [pc EXCEPT ![t] = "get_key_miss"]
  /\ UNCHANGED <<device_keys, keys_writer, derivations, returned, locVars>>

\* get_or_generate_key, line 27: unique_lock
GetKeyUniqueLock(t) ==
  /\ pc[t] = "get_key_miss"
  /\ keys_writer = NoThread
  /\ keys_readers = {}
  /\ keys_writer' = t
  /\ pc' = [pc EXCEPT ![t] = "get_key_unique"]
  /\ UNCHANGED <<device_keys, keys_readers, derivations, returned, locVars>>

\* a second lookup that never finds the entry
FoundAgain_Never(id) == FALSE

\* the second lookup, lines 28-29
FoundAgain(id) == device_keys[id] # NoKey

\* get_or_generate_key, lines 28-31: found on the second look
GetKeyUniqueHit(t) ==
  /\ pc[t] = "get_key_unique"
  /\ FoundAgain(device_id[t])
  /\ key' = [key EXCEPT ![t] = device_keys[device_id[t]]]
  /\ returned' = returned \cup {[dev |-> device_id[t], key |-> device_keys[device_id[t]]]}
  /\ keys_writer' = NoThread
  /\ pc' = [pc EXCEPT ![t] = "get_key_ret"]
  /\ UNCHANGED <<device_keys, keys_readers, derivations, device_id,
                 encrypted_data, outcome>>

\* a store that evicts the entries of the other devices
GetKeyDerive_Evicts(t) ==
  /\ pc[t] = "get_key_unique"
  /\ ~FoundAgain(device_id[t])
  /\ derivations' = [derivations EXCEPT ![device_id[t]] = @ + 1]
  /\ device_keys' = [id \in DOMAIN device_keys |->
                       IF id = device_id[t] THEN DerivedKey(id) ELSE NoKey]
  /\ key' = [key EXCEPT ![t] = DerivedKey(device_id[t])]
  /\ returned' = returned \cup {[dev |-> device_id[t], key |-> DerivedKey(device_id[t])]}
  /\ keys_writer' = NoThread
  /\ pc' = [pc EXCEPT ![t] = "get_key_ret"]
  /\ UNCHANGED <<keys_readers, device_id, encrypted_data, outcome>>

\* get_or_generate_key, lines 33-40: derive, store, return
GetKeyDerive(t) ==
  /\ pc[t] = "get_key_unique"
  /\ ~FoundAgain(device_id[t])
  /\ derivations' = [derivations EXCEPT ![device_id[t]] = @ + 1]
  /\ device_keys' = [device_keys EXCEPT ![device_id[t]] = DerivedKey(device_id[t])]
  /\ key' = [key EXCEPT ![t] = DerivedKey(device_id[t])]
  /\ returned' = returned \cup {[dev |-> device_id[t], key |-> DerivedKey(device_id[t])]}
  /\ keys_writer' = NoThread
  /\ pc' = [pc EXCEPT ![t] = "get_key_ret"]
  /\ UNCHANGED <<keys_readers, device_id, encrypted_data, outcome>>

\* decrypt_data, lines 51-90: IV, decrypt the block, return the plaintext or
\* throw the cipher's failure
DecCipher(t) ==
  /\ pc[t] = "get_key_ret"
  /\ encrypted_data[t] # NoData
  /\ LET r == DecryptBlock(key[t], DerivedIv(key[t], device_id[t]), encrypted_data[t])
     IN  /\ outcome' = [outcome EXCEPT ![t] = r]
         /\ pc' = [pc EXCEPT ![t] = IF r.kind = "plaintext" THEN "dec_ret" ELSE "dec_throw"]
  /\ UNCHANGED <<keyVars, device_id, encrypted_data, key>>

\* the steps of AESManager a thread inside a call can take
ManagerStep(t) ==
  \/ DecLengthError(t)
  \/ DecGetKey(t)
  \/ GetKeySharedLock(t)
  \/ GetKeySharedHit(t)
  \/ GetKeySharedMiss(t)
  \/ GetKeyUniqueLock(t)
  \/ GetKeyUniqueHit(t)
  \/ GetKeyDerive(t)
  \/ DecCipher(t)

(***************************************************************************)
(* PowerSumProcessor                                                       *)
(***************************************************************************)
\* the members of a processor with window size count, with or without a
\* benchmark target and callback set
ProcessorMembers(count, target_sums, with_callback) ==
  /\ target_count = count
  /\ power_readings = <<>>
  /\ current_count = 0
  /\ total_sums = 0
  /\ benchmark_sum_target = target_sums
  /\ callback_set = with_callback
  /\ readings_mutex = NoThread
  /\ added = <<>>
  /\ emitted = <<>>
  /\ callback_calls = 0

\* PowerSumProcessor::PowerSumProcessor(count)
ProcessorInit(count) == ProcessorMembers(count, 0, FALSE)

\* set_benchmark_target(target_sums, callback): one lock_guard section
set_benchmark_target(target_sums) ==
  /\ readings_mutex = NoThread
  /\ benchmark_sum_target' = target_sums
  /\ callback_set' = TRUE
  /\ UNCHANGED <<target_count, power_readings, current_count, total_sums,
                 readings_mutex, added, emitted, callback_calls>>

\* an add_reading that enters without waiting for the lock to be free
AddPush_NoWait(t, power) ==
  /\ readings_mutex' = t
  /\ power_readings' = Append(power_readings, power)
  /\ current_count' = current_count + 1
  /\ added' = Append(added, power)
  /\ pc' = [pc EXCEPT ![t] = "add_pushed"]
  /\ UNCHANGED <<target_count, total_sums, benchmark_sum_target, callback_set,
                 emitted, callback_calls>>

\* add_reading, lines 20-23: take the lock, push_back, ++current_count
AddPush(t, power) ==
  /\ readings_mutex = NoThread
  /\ readings_mutex' = t
  /\ power_readings' = Append(power_readings, power)
  /\ current_count' = current_count + 1
  /\ added' = Append(added, power)
  /\ pc' = [pc EXCEPT ![t] = "add_pushed"]
  /\ UNCHANGED <<target_count, total_sums, benchmark_sum_target, callback_set,
                 emitted, callback_calls>>

\* an off-by-one window test
WindowFull_Late(count) == count > target_count

\* the window test of line 25
WindowFull(count) == count >= target_count

\* a close that empties the buffer and leaves the count as it is
AddClose_KeepsCount(t) ==
  /\ pc[t] = "add_pushed"
  /\ WindowFull(current_count)
  /\ total_sums' = total_sums + 1
  /\ emitted' = Append(emitted, [k |-> Len(added),
                                 sum |-> SumSeq(power_readings),
                                 n |-> total_sums + 1])
  /\ power_readings' = <<>>
  /\ pc' = [pc EXCEPT ![t] = "add_closed"]
  /\ UNCHANGED <<target_count, current_count, benchmark_sum_target, callback_set,
                 readings_mutex, added, callback_calls>>

\* add_reading, lines 25-39: the window closes: sum, total_sums++, clear
AddClose(t) ==
  /\ pc[t] = "add_pushed"
  /\ WindowFull(current_count)
  /\ total_sums' = total_sums + 1
  /\ emitted' = Append(emitted, [k |-> Len(added),
                                 sum |-> SumSeq(power_readings),
                                 n |-> total_sums + 1])
  /\ power_readings' = <<>>
  /\ current_count' = 0
  /\ pc' = [pc EXCEPT ![t] = "add_closed"]
  /\ UNCHANGED <<target_count, benchmark_sum_target, callback_set,
                 readings_mutex, added, callback_calls>>

\* add_reading, lines 25, 48: the window stays open: unlock, return false
AddKeep(t) ==
  /\ pc[t] = "add_pushed"
  /\ ~WindowFull(current_count)
  /\ readings_mutex' = NoThread
  /\ pc' = [pc EXCEPT ![t] = "add_ret"]
  /\ UNCHANGED <<target_count, power_readings, current_count, total_sums,
                 benchmark_sum_target, callback_set, added, emitted,
                 callback_calls>>

\* the test of line 42
BenchmarkReached ==
  benchmark_sum_target > 0 /\ total_sums >= benchmark_sum_target /\ callback_set

\* a callback invoked after the lock has been given up
AddCallback_Unlocked(t) ==
  /\ pc[t] = "add_closed"
  /\ BenchmarkReached
  /\ callback_calls' = callback_calls + 1
  /\ readings_mutex' = NoThread
  /\ pc' = [pc EXCEPT ![t] = "callback"]
  /\ UNCHANGED <<target_count, power_readings, current_count, total_sums,
                 benchmark_sum_target, callback_set, added, emitted>>

\* add_reading, lines 42-43: the callback is invoked, under the lock
AddCallback(t) ==
  /\ pc[t] = "add_closed"
  /\ BenchmarkReached
  /\ callback_calls' = callback_calls + 1
  /\ pc' = [pc EXCEPT ![t] = "callback"]
  /\ UNCHANGED <<target_count, power_readings, current_count, total_sums,
                 benchmark_sum_target, callback_set, readings_mutex, added,
                 emitted>>

\* add_reading, lines 42, 46: no callback: unlock, return true
AddNoCallback(t) ==
  /\ pc[t] = "add_closed"
  /\ ~BenchmarkReached
  /\ readings_mutex' = NoThread
  /\ pc' = [pc EXCEPT ![t] = "add_ret"]
  /\ UNCHANGED <<target_count, power_readings, current_count, total_sums,
                 benchmark_sum_target, callback_set, added, emitted,
                 callback_calls>>

\* add_reading, line 46, after the callback returned: unlock, return true
AddUnlock(t) ==
  /\ pc[t] = "callback_ret"
  /\ readings_mutex' = NoThread
  /\ pc' = [pc EXCEPT ![t] = "add_ret"]
  /\ UNCHANGED <<target_count, power_readings, current_count, total_sums,
                 benchmark_sum_target, callback_set, added, emitted,
                 callback_calls>>

(***************************************************************************)
(* ThreadPool.  Every access to tasks and stop is made with queue_mutex    *)
(* held, so each locked section is one step.  The workers are Threads.     *)
(***************************************************************************)
NoTask == 0

\* the members as constructed, before workers run
PoolInit ==
  /\ tasks = <<>>
  /\ stop = FALSE
  /\ sub_pc = "idle"
  /\ sub_task = NoTask
  /\ dtor_pc = "alive"
  /\ task = [t \in Threads |-> NoTask]
  /\ accepted = {}
  /\ rejected = {}
  /\ notifications = 0
  /\ dequeued = <<>>
  /\ finished = {}

\* an enqueue that never refuses
EnqueueRefused_Never == FALSE

\* the test of thread_pool.hpp:26
EnqueueRefused == stop

\* enqueue, lines 25-26: stop is set: return
EnqueueRefuse ==
  /\ sub_pc = "enqueue"
  /\ EnqueueRefused
  /\ rejected' = rejected \cup {sub_task}
  /\ sub_pc' = "enqueue_ret"
  /\ UNCHANGED <<tasks, stop, sub_task, dtor_pc, task, accepted, notifications,
                 dequeued, finished, pc>>

\* enqueue, lines 25-28: the task is put in the queue
EnqueueEmplace ==
  /\ sub_pc = "enqueue"
  /\ ~EnqueueRefused
  /\ tasks' = Append(tasks, sub_task)
  /\ accepted' = accepted \cup {sub_task}
  /\ sub_pc' = "enqueue_notify"
  /\ UNCHANGED <<stop, sub_task, dtor_pc, task, rejected, notifications,
                 dequeued, finished, pc>>

\* the workers blocked in condition.wait
Blocked == {t \in Threads : pc[t] = "worker_blocked"}
\* the workers vector: the threads the constructor created
Workers == {t \in Threads : pc[t] # "no_thread"}

\* enqueue, line 29: notify_one wakes one blocked worker, if there is one
EnqueueNotify ==
  /\ sub_pc = "enqueue_notify"
  /\ notifications' = notifications + 1
  /\ IF Blocked = {} THEN pc' = pc
     ELSE \E t \in Blocked : pc' = [pc EXCEPT ![t] = "worker_loop"]
  /\ sub_pc' = "enqueue_ret"
  /\ UNCHANGED <<tasks, stop, sub_task, dtor_pc, task, accepted, rejected,
                 dequeued, finished>>

\* the wait predicate of thread_pool.cpp:10
WaitOver == stop \/ tasks # <<>>

\* a worker that leaves as soon as stop is set
WorkerLeaves_OnStop == stop

\* the exit test of thread_pool.cpp:12
WorkerLeaves == stop /\ tasks = <<>>

\* worker, lines 9-10: the predicate is false: wait
WorkerBlock(t) ==
  /\ pc[t] = "worker_loop"
  /\ ~WaitOver
  /\ pc' = [pc EXCEPT ![t] = "worker_blocked"]
  /\ UNCHANGED poolVars

\* condition.wait may return without a notification; the predicate is tested again
WorkerSpuriousWake(t) ==
  /\ pc[t] = "worker_blocked"
  /\ pc' = [pc EXCEPT ![t] = "worker_loop"]
  /\ UNCHANGED poolVars

\* worker, line 12: stopped and nothing queued: the thread function returns
WorkerExit(t) ==
  /\ pc[t] = "worker_loop"
  /\ WaitOver
  /\ WorkerLeaves
  /\ pc' = [pc EXCEPT ![t] = "worker_exit"]
  /\ UNCHANGED poolVars

\* a worker that takes the task at the back of the queue
WorkerTake_Back(t) ==
  /\ pc[t] = "worker_loop"
  /\ WaitOver
  /\ ~WorkerLeaves
  /\ tasks # <<>>
  /\ task' = [task EXCEPT ![t] = tasks[Len(tasks)]]
  /\ tasks' = SubSeq(tasks, 1, Len(tasks) - 1)
  /\ dequeued' = Append(dequeued, tasks[Len(tasks)])
  /\ pc' = [pc EXCEPT ![t] = "task"]
  /\ UNCHANGED <<stop, sub_pc, sub_task, dtor_pc, accepted, rejected,
                 notifications, finished>>

\* a worker that leaves a task in the queue the first time it is taken
WorkerTake_Twice(t) ==
  /\ pc[t] = "worker_loop"
  /\ WaitOver
  /\ ~WorkerLeaves
  /\ tasks # <<>>
  /\ task' = [task EXCEPT ![t] = Head(tasks)]
  /\ tasks' = IF \E i \in 1..Len(dequeued) : dequeued[i] = Head(tasks)
              THEN Tail(tasks) ELSE tasks
  /\ dequeued' = Append(dequeued, Head(tasks))
  /\ pc' = [pc EXCEPT ![t] = "task"]
  /\ UNCHANGED <<stop, sub_pc, sub_task, dtor_pc, accepted, rejected,
                 notifications, finished>>

\* worker, lines 14-17: take the front task and call it
WorkerTake(t) ==
  /\ pc[t] = "worker_loop"
  /\ WaitOver
  /\ ~WorkerLeaves
  /\ tasks # <<>>
  /\ task' = [task EXCEPT ![t] = Head(tasks)]
  /\ tasks' = Tail(tasks)
  /\ dequeued' = Append(dequeued, Head(tasks))
  /\ pc' = [pc EXCEPT ![t] = "task"]
  /\ UNCHANGED <<stop, sub_pc, sub_task, dtor_pc, accepted, rejected,
                 notifications, finished>>

\* worker, line 17 and back to line 6: the task returned
WorkerTaskReturn(t) ==
  /\ pc[t] = "task_ret"
  /\ finished' = finished \cup {task[t]}
  /\ task' = [task EXCEPT ![t] = NoTask]
  /\ pc' = [pc EXCEPT ![t] = "worker_loop"]
  /\ UNCHANGED <<tasks, stop, sub_pc, sub_task, dtor_pc, accepted, rejected,
                 notifications, dequeued>>

\* ~ThreadPool, lines 24-27: stop = true under the lock
DtorStop ==
  /\ dtor_pc = "dtor"
  /\ stop' = TRUE
  /\ dtor_pc' = "dtor_notify"
  /\ UNCHANGED <<tasks, sub_pc, sub_task, task, accepted, rejected,
                 notifications, dequeued, finished, pc>>

\* ~ThreadPool, line 28: notify_all
DtorNotifyAll ==
  /\ dtor_pc = "dtor_notify"
  /\ pc' = [t \in Threads |-> IF t \in Blocked THEN "worker_loop" ELSE pc[t]]
  /\ dtor_pc' = "dtor_join"
  /\ UNCHANGED <<tasks, stop, sub_pc, sub_task, task, accepted, rejected,
                 notifications, dequeued, finished>>

\* ~ThreadPool, lines 31-39: every worker joined, then the queue is cleared
DtorJoinAll ==
  /\ dtor_pc = "dtor_join"
  /\ \A t \in Workers : pc[t] = "worker_exit"
  /\ tasks' = <<>>
  /\ dtor_pc' = "dtor_done"
  /\ UNCHANGED <<stop, sub_pc, sub_task, task, accepted, rejected,
                 notifications, dequeued, finished, pc>>

(***************************************************************************)
(* SmartGridServer.  The workers of its pool run handle_client; the main   *)
(* thread runs run() and then the destructors.                             *)
(***************************************************************************)
\* a MeterReading in integers: volts * 10, amps * 100
NoReading ==
  [device_id |-> <<>>, timestamp |-> 0, voltage_x10 |-> 0, current_x100 |-> 0,
   power |-> 0, frequency |-> 0]

\* the locals of a handler that is not inside a message
HandlerLocalsInit ==
  /\ data_length = [t \in Threads |-> 0]
  /\ reading = [t \in Threads |-> NoReading]
  /\ total = [t \in Threads |-> 0]
  /\ fin_from = [t \in Threads |-> "none"]

\* ThreadPool::ThreadPool(num_threads): every worker starts at the top of its
\* loop; a thread beyond num_threads is not created
WorkersInit(num_threads) ==
  /\ pc = [t \in Threads |-> IF t <= num_threads THEN "worker_loop" ELSE "no_thread"]
  /\ device_id = [t \in Threads |-> <<>>]
  /\ encrypted_data = [t \in Threads |-> NoData]
  /\ key = [t \in Threads |-> NoKey]
  /\ outcome = [t \in Threads |-> NoOutcome]

\* SmartGridServer's members as constructed with the given targets
ServerMembers(bench_target, bench_sum_target, with_metrics) ==
  /\ server_fd = "open"
  /\ total_readings = 0
  /\ connected_devices = 0
  /\ started = FALSE
  /\ first_read_time = "unset"
  /\ benchmark_target = bench_target
  /\ srv_sum_target = bench_sum_target
  /\ metrics_file = with_metrics
  /\ done = FALSE
  /\ finalized = FALSE
  /\ aborted = FALSE
  /\ conn_open = {}
  /\ metrics = <<>>
  /\ conns_accepted = 0
  /\ headers_read = 0
  /\ conn_drops = [c \in Connections |-> 0]
  /\ origin_writes = 0
  /\ finalize_passed = 0
  /\ decoded = 0
  /\ alerts = 0
  /\ oob_reads = 0
  /\ HandlerLocalsInit

\* the server part of a specification that runs no server
ServerIdle == ServerMembers(0, 0, FALSE) /\ sent = {}

\* what arrives for read_line: a line, or nothing because the peer closed
PeerClosed == <<>>
HeaderLines ==
  {<<"\n">>,
   <<"x", "\n">>,
   <<"m", "1", ":", "1", "6", "\r", "\n">>,
   <<"m", "1", ":", "1", "5", "\n">>,
   <<"m", "1", ":", "x", "\n">>}

\* a record of 5 bytes: too short to decode
ShortRecord == <<0, 0, 0, 1, 0>>
\* what a peer puts in the block it sends
WireContents == {Padded(SampleRecord), Padded(ShortRecord), BadPadding}

\* the position of the colon, server.cpp:136
ColonPos(line) == Find(line, ":")
\* the text after the colon, server.cpp:140
LengthField(line) == SubSeq(line, ColonPos(line) + 1, Len(line))

\* parse_binary_reading, server.cpp:186: the size test
TooShort(data) == Len(data) < 11

\* one more than the highest offset parse_binary_reading reads, server.cpp:198
RecordLen == 13

\* values a byte past the end of the vector's elements may hold
GarbageBytes == {0, 255}

\* what parse_binary_reading finds past the end of data when it reads offsets
\* up to RecordLen - 1: nothing if data is long enough, else whatever the
\* memory there holds (the read is undefined behaviour)
Beyond(data) ==
  IF Len(data) >= RecordLen THEN {<<>>}
  ELSE [1..(RecordLen - Len(data)) -> GarbageBytes]

\* parse_binary_reading, server.cpp:193-204, of the RecordLen bytes it reads
ParseBinaryReading(data) ==
  [device_id |-> <<>>,
   timestamp |-> ((data[1] * 256 + data[2]) * 256 + data[3]) * 256 + data[4],
   voltage_x10 |-> data[7] * 256 + data[8],
   current_x100 |-> data[9] * 256 + data[10],
   power |-> data[11] * 256 + data[12],
   frequency |-> data[13]]

\* the locals of a message go out of scope
ClearMessage(t) ==
  /\ device_id' = [device_id EXCEPT ![t] = <<>>]
  /\ encrypted_data' = [encrypted_data EXCEPT ![t] = NoData]
  /\ key' = [key EXCEPT ![t] = NoKey]
  /\ outcome' = [outcome EXCEPT ![t] = NoOutcome]
  /\ data_length' = [data_length EXCEPT ![t] = 0]
  /\ reading' = [reading EXCEPT ![t] = NoReading]
  /\ total' = [total EXCEPT ![t] = 0]
  /\ fin_from' = [fin_from EXCEPT ![t] = "none"]

\* handle_client, line 130: done is set: leave the loop
HcLoopDone(t) ==
  /\ pc[t] \in {"task", "hc_loop"}
  /\ done
  /\ pc' = [pc EXCEPT ![t] = "hc_close"]
  /\ UNCHANGED <<sent, obsVars, aggVars, keyVars, poolVars, locVars, hdlVars, srvVars>>

\* a handler that reads the next header before process_reading has returned
LineRead_Early(t, wire) ==
  /\ pc[t] \in {"task", "hc_loop", "pr_counted"}
  /\ ~done
  /\ wire = PeerClosed \/ (wire \in HeaderLines /\ headers_read < MaxHeaders)
  /\ headers_read' = IF wire = PeerClosed THEN headers_read ELSE headers_read + 1

\* handle_client, lines 130-132: done is not set and read_line returns the
\* line the peer sent, or "" when it closed
LineRead(t, wire) ==
  /\ pc[t] \in {"task", "hc_loop"}
  /\ ~done
  /\ wire = PeerClosed \/ (wire \in HeaderLines /\ headers_read < MaxHeaders)
  /\ headers_read' = IF wire = PeerClosed THEN headers_read ELSE headers_read + 1

\* handle_client, line 133: an empty header: break
HcHeaderEmpty(t) ==
  /\ \E wire \in HeaderLines \cup {PeerClosed} :
       /\ LineRead(t, wire)
       /\ ReadLine(wire) = <<>>
  /\ pc' = [pc EXCEPT ![t] = "hc_close"]
  /\ UNCHANGED <<sent, obsVars, aggVars, keyVars, poolVars, locVars, data_length, reading, total,
                 fin_from, server_fd, total_readings, connected_devices, started,
                 first_read_time, benchmark_target, srv_sum_target, metrics_file,
                 done, finalized, aborted, conn_open, metrics, conns_accepted,
                 conn_drops, origin_writes, finalize_passed>>

\* where a header without a colon leaves the handler: at the loop test
AfterNoColon == "hc_loop"

\* handle_client, lines 136-137: no colon: continue
HcHeaderNoColon(t) ==
  /\ \E wire \in HeaderLines :
       /\ LineRead(t, wire)
       /\ ReadLine(wire) # <<>>
       /\ ColonPos(ReadLine(wire)) = 0
  /\ pc' = [pc EXCEPT ![t] = AfterNoColon]
  /\ UNCHANGED <<sent, obsVars, aggVars, keyVars, poolVars, locVars, data_length, reading, total,
                 fin_from, server_fd, total_readings, connected_devices, started,
                 first_read_time, benchmark_target, srv_sum_target, metrics_file,
                 done, finalized, aborted, conn_open, metrics, conns_accepted,
                 conn_drops, origin_writes, finalize_passed>>

\* handle_client, line 140: std::stoull throws; nothing catches it in
\* handle_client, in the task or in the worker's thread function, so
\* std::terminate ends the process and every thread with it
HcHeaderBadLength(t) ==
  /\ \E wire \in HeaderLines :
       /\ LineRead(t, wire)
       /\ ColonPos(ReadLine(wire)) # 0
       /\ ~Stoull(LengthField(ReadLine(wire))).ok
  /\ aborted' = TRUE
  /\ pc' = [u \in Threads |-> IF u \in Workers THEN "terminate" ELSE pc[u]]
  /\ sub_pc' = "terminate"
  /\ dtor_pc' = "terminate"
  /\ UNCHANGED <<sent, obsVars, aggVars, keyVars, locVars, tasks, stop, sub_task, task, accepted,
                 rejected, notifications, dequeued, finished, server_fd,
                 total_readings, connected_devices, started, first_read_time,
                 benchmark_target, srv_sum_target, metrics_file, done, finalized,
                 conn_open, metrics, conns_accepted, conn_drops,
                 origin_writes, finalize_passed, data_length, reading, total,
                 fin_from>>

\* handle_client, lines 139-143: device id and length parsed
HcHeaderOk(t) ==
  /\ \E wire \in HeaderLines :
       /\ LineRead(t, wire)
       /\ ColonPos(ReadLine(wire)) # 0
       /\ Stoull(LengthField(ReadLine(wire))).ok
       /\ device_id' = [device_id EXCEPT ![t] =
                          SubSeq(ReadLine(wire), 1, ColonPos(ReadLine(wire)) - 1)]
       /\ data_length' = [data_length EXCEPT ![t] =
                            Stoull(LengthField(ReadLine(wire))).value]
  /\ pc' = [pc EXCEPT ![t] = "hc_payload"]
  /\ UNCHANGED <<sent, obsVars, aggVars, keyVars, poolVars, encrypted_data, key, outcome, reading,
                 total, fin_from, server_fd, total_readings, connected_devices, started,
                 first_read_time, benchmark_target, srv_sum_target, metrics_file,
                 done, finalized, aborted, conn_open, metrics, conns_accepted,
                 conn_drops, origin_writes, finalize_passed>>

\* handle_client, lines 144-146: the peer closed before data_length bytes: break
HcPayloadShort(t) ==
  /\ pc[t] = "hc_payload"
  /\ data_length[t] > 0
  /\ pc' = [pc EXCEPT ![t] = "hc_close"]
  /\ UNCHANGED <<sent, obsVars, aggVars, keyVars, poolVars, locVars, hdlVars, srvVars>>

\* handle_client, lines 144, 150: data_length bytes read; decrypt_data is called
HcPayloadFull(t) ==
  /\ pc[t] = "hc_payload"
  /\ \E c \in sent :
       encrypted_data' = [encrypted_data EXCEPT ![t] =
                            SentData(data_length[t], device_id[t], c)]
  /\ pc' = [pc EXCEPT ![t] = "decrypt_data"]
  /\ UNCHANGED <<sent, obsVars, aggVars, keyVars, poolVars, hdlVars, srvVars, device_id,
                 key, outcome>>

\* a catch block that gives the connection up
AfterError_Close == "hc_close"

\* where the catch block of lines 154-156 leaves the handler: at the loop test
AfterError == "hc_loop"

\* a catch block that counts the message it drops
HcCatchDecrypt_Counts(t) ==
  /\ pc[t] = "dec_throw"
  /\ conn_drops' = [conn_drops EXCEPT ![task[t]] = @ + 1]
  /\ total_readings' = total_readings + 1
  /\ ClearMessage(t)
  /\ pc' = [pc EXCEPT ![t] = AfterError]
  /\ UNCHANGED <<sent, obsVars, aggVars, keyVars, poolVars, server_fd,
                 connected_devices, started,
                 first_read_time, benchmark_target, srv_sum_target,
                 metrics_file, done, finalized, aborted, conn_open,
                 metrics, conns_accepted, headers_read,
                 origin_writes, finalize_passed>>

\* handle_client, lines 150, 154-156: decrypt_data threw; logged, dropped
HcCatchDecrypt(t) ==
  /\ pc[t] = "dec_throw"
  /\ conn_drops' = [conn_drops EXCEPT ![task[t]] = @ + 1]
  /\ ClearMessage(t)
  /\ pc' = [pc EXCEPT ![t] = AfterError]
  /\ UNCHANGED <<sent, obsVars, aggVars, keyVars, poolVars, server_fd,
                 total_readings, connected_devices, started,
                 first_read_time, benchmark_target, srv_sum_target,
                 metrics_file, done, finalized, aborted, conn_open,
                 metrics, conns_accepted, headers_read,
                 origin_writes, finalize_passed>>

\* handle_client, lines 151, 154-156: parse_binary_reading threw; logged, dropped
HcCatchParse(t) ==
  /\ pc[t] = "dec_ret"
  /\ TooShort(outcome[t].bytes)
  /\ conn_drops' = [conn_drops EXCEPT ![task[t]] = @ + 1]
  /\ ClearMessage(t)
  /\ pc' = [pc EXCEPT ![t] = AfterError]
  /\ UNCHANGED <<sent, obsVars, aggVars, keyVars, poolVars, server_fd,
                 total_readings, connected_devices, started,
                 first_read_time, benchmark_target, srv_sum_target,
                 metrics_file, done, finalized, aborted, conn_open,
                 metrics, conns_accepted, headers_read,
                 origin_writes, finalize_passed>>

\* handle_client, lines 151-153: the reading is decoded, given the header's
\* device id and handed to process_reading
HcParsed(t) ==
  /\ pc[t] = "dec_ret"
  /\ ~TooShort(outcome[t].bytes)
  /\ \E past \in Beyond(outcome[t].bytes) :
       /\ reading' = [reading EXCEPT ![t] =
                        [ParseBinaryReading(outcome[t].bytes \o past)
                           EXCEPT !.device_id = device_id[t]]]
       /\ oob_reads' = oob_reads + Len(past)
  /\ decoded' = decoded + 1
  /\ pc' = [pc EXCEPT ![t] = "process_reading"]
  /\ UNCHANGED <<sent, alerts, aggVars, keyVars, poolVars, locVars, server_fd,
                 total_readings, connected_devices, started, first_read_time,
                 benchmark_target, srv_sum_target, metrics_file, done,
                 finalized, aborted, conn_open, metrics, data_length, total,
                 fin_from, conns_accepted, headers_read, conn_drops,
                 origin_writes, finalize_passed>>

\* an exchange that reports the flag clear whatever it held
Exchange_Stale(flag) == FALSE

\* std::atomic<bool>::exchange(true) returns the value the flag held
Exchange(flag) == flag

\* a process_reading that stores the origin whatever the exchange returned
PrStarted_Always(t) ==
  /\ pc[t] = "process_reading"
  /\ started' = TRUE
  /\ pc' = [pc EXCEPT ![t] = "pr_latch"]
  /\ UNCHANGED <<sent, obsVars, aggVars, keyVars, poolVars, locVars, hdlVars, server_fd,
                 total_readings, connected_devices, first_read_time,
                 benchmark_target, srv_sum_target, metrics_file, done,
                 finalized, aborted, conn_open, metrics, conns_accepted,
                 headers_read, conn_drops, origin_writes,
                 finalize_passed>>

\* process_reading, line 212: started.exchange(true)
PrStarted(t) ==
  /\ pc[t] = "process_reading"
  /\ started' = TRUE
  /\ pc' = [pc EXCEPT ![t] = IF Exchange(started) THEN "pr_add" ELSE "pr_latch"]
  /\ UNCHANGED <<sent, obsVars, aggVars, keyVars, poolVars, locVars, hdlVars, server_fd,
                 total_readings, connected_devices, first_read_time,
                 benchmark_target, srv_sum_target, metrics_file, done,
                 finalized, aborted, conn_open, metrics, conns_accepted,
                 headers_read, conn_drops, origin_writes,
                 finalize_passed>>

\* process_reading, line 213: the thread that won the exchange stores the origin
PrLatch(t) ==
  /\ pc[t] = "pr_latch"
  /\ first_read_time' = "set"
  /\ origin_writes' = origin_writes + 1
  /\ pc' = [pc EXCEPT ![t] = "pr_add"]
  /\ UNCHANGED <<sent, obsVars, aggVars, keyVars, poolVars, locVars, hdlVars, server_fd,
                 total_readings, connected_devices, started,
                 benchmark_target, srv_sum_target, metrics_file, done,
                 finalized, aborted, conn_open, metrics, conns_accepted,
                 headers_read, conn_drops, finalize_passed>>

\* process_reading, line 218: processor.add_reading(reading.power)
PrAdd(t) ==
  /\ pc[t] = "pr_add"
  /\ AddPush(t, reading[t].power)
  /\ UNCHANGED notAgg

\* the callback of server.cpp:44-48: finalize_benchmark is called
SrvCallback(t) ==
  /\ pc[t] = "callback"
  /\ fin_from' = [fin_from EXCEPT ![t] = "callback"]
  /\ pc' = [pc EXCEPT ![t] = "finalize_benchmark"]
  /\ UNCHANGED <<sent, obsVars, aggVars, keyVars, poolVars, locVars, srvVars, data_length,
                 reading, total>>

\* a process_reading that reads the counter and does not add to it
PrCount_Skips(t) ==
  /\ pc[t] = "add_ret"
  /\ total' = [total EXCEPT ![t] = total_readings]
  /\ pc' = [pc EXCEPT ![t] = "pr_counted"]
  /\ UNCHANGED <<sent, obsVars, aggVars, keyVars, poolVars, locVars, server_fd,
                 total_readings, connected_devices, started, first_read_time,
                 benchmark_target, srv_sum_target, metrics_file, done,
                 finalized, aborted, conn_open, metrics, data_length,
                 reading, fin_from, conns_accepted, headers_read, conn_drops,
                 origin_writes, finalize_passed>>

\* process_reading, line 220: total = ++total_readings
PrCount(t) ==
  /\ pc[t] = "add_ret"
  /\ total_readings' = total_readings + 1
  /\ total' = [total EXCEPT ![t] = total_readings + 1]
  /\ pc' = [pc EXCEPT ![t] = "pr_counted"]
  /\ UNCHANGED <<sent, obsVars, aggVars, keyVars, poolVars, locVars, server_fd,
                 connected_devices, started, first_read_time,
                 benchmark_target, srv_sum_target, metrics_file, done,
                 finalized, aborted, conn_open, metrics, data_length,
                 reading, fin_from, conns_accepted, headers_read, conn_drops,
                 origin_writes, finalize_passed>>

\* the test of line 243
LegacyReached(t) ==
  /\ benchmark_target > 0
  /\ srv_sum_target = 0
  /\ total[t] >= benchmark_target
  /\ ~done

\* a test that takes the two limits themselves for anomalies
Anomalous_Inclusive(r) == r.power < 0 \/ r.voltage_x10 <= 1000 \/ r.voltage_x10 >= 1400

\* the test of line 234; power is a double made from an unsigned 16-bit value
Anomalous(r) == r.power < 0 \/ r.voltage_x10 < 1000 \/ r.voltage_x10 > 1400

\* process_reading, lines 234-240: Logger::alert if the reading is anomalous
AlertIfAnomalous(t) ==
  alerts' = IF Anomalous(reading[t]) THEN alerts + 1 ELSE alerts

\* process_reading, lines 234-245: the reading-count target is reached
PrLegacy(t) ==
  /\ pc[t] = "pr_counted"
  /\ AlertIfAnomalous(t)
  /\ LegacyReached(t)
  /\ fin_from' = [fin_from EXCEPT ![t] = "process_reading"]
  /\ pc' = [pc EXCEPT ![t] = "finalize_benchmark"]
  /\ UNCHANGED <<sent, decoded, oob_reads, aggVars, keyVars, poolVars, locVars, srvVars, data_length,
                 reading, total>>

\* process_reading, lines 234-247: it returns to the loop of handle_client
PrReturn(t) ==
  /\ pc[t] = "pr_counted"
  /\ AlertIfAnomalous(t)
  /\ ~LegacyReached(t)
  /\ ClearMessage(t)
  /\ pc' = [pc EXCEPT ![t] = "hc_loop"]
  /\ UNCHANGED <<sent, decoded, oob_reads, aggVars, keyVars, poolVars, srvVars>>

\* finalize_benchmark, line 251: finalized.exchange(true)
FinFinalized(t) ==
  /\ pc[t] = "finalize_benchmark"
  /\ finalized' = TRUE
  /\ pc' = [pc EXCEPT ![t] = IF Exchange(finalized) THEN "fin_ret" ELSE "fin_done"]
  /\ UNCHANGED <<sent, obsVars, aggVars, keyVars, poolVars, locVars, hdlVars, server_fd,
                 total_readings, connected_devices, started, first_read_time,
                 benchmark_target, srv_sum_target, metrics_file, done,
                 aborted, conn_open, metrics, conns_accepted, headers_read,
                 conn_drops, origin_writes, finalize_passed>>

\* finalize_benchmark, line 253: done.exchange(true)
FinDone(t) ==
  /\ pc[t] = "fin_done"
  /\ done' = TRUE
  /\ finalize_passed' = IF Exchange(done) THEN finalize_passed
                        ELSE finalize_passed + 1
  /\ pc' = [pc EXCEPT ![t] = IF Exchange(done) THEN "fin_ret" ELSE "fin_metrics"]
  /\ UNCHANGED <<sent, obsVars, aggVars, keyVars, poolVars, locVars, hdlVars, server_fd,
                 total_readings, connected_devices, started, first_read_time,
                 benchmark_target, srv_sum_target, metrics_file, finalized,
                 aborted, conn_open, metrics, conns_accepted, headers_read,
                 conn_drops, origin_writes>>

\* the record of lines 280-288
MetricsRecord ==
  [benchmark_target |-> benchmark_target,
   benchmark_sum_target |-> srv_sum_target,
   total_readings |-> total_readings,
   total_sums |-> total_sums]

\* a finalize_benchmark that a file it cannot open makes its handler give up
FinMetrics_GivesUp(t) ==
  /\ pc[t] = "fin_metrics"
  /\ \E opened \in BOOLEAN :
       /\ metrics' = IF metrics_file /\ opened THEN Append(metrics, MetricsRecord)
                     ELSE metrics
       /\ pc' = [pc EXCEPT ![t] = IF metrics_file /\ ~opened THEN "hc_close"
                                  ELSE "fin_ret"]
  /\ UNCHANGED <<sent, obsVars, aggVars, keyVars, poolVars, locVars, hdlVars, server_fd,
                 total_readings, connected_devices, started, first_read_time,
                 benchmark_target, srv_sum_target, metrics_file, done,
                 finalized, aborted, conn_open, conns_accepted, headers_read,
                 conn_drops, origin_writes, finalize_passed>>

\* a finalize_benchmark whose read of total_sums takes readings_mutex
FinMetrics_Locks(t) ==
  /\ pc[t] = "fin_metrics"
  /\ readings_mutex = NoThread
  /\ \E opened \in BOOLEAN :
       metrics' = IF metrics_file /\ opened THEN Append(metrics, MetricsRecord)
                  ELSE metrics
  /\ pc' = [pc EXCEPT ![t] = "fin_ret"]
  /\ UNCHANGED <<sent, obsVars, aggVars, keyVars, poolVars, locVars, hdlVars, server_fd,
                 total_readings, connected_devices, started, first_read_time,
                 benchmark_target, srv_sum_target, metrics_file, done,
                 finalized, aborted, conn_open, conns_accepted, headers_read,
                 conn_drops, origin_writes, finalize_passed>>

\* finalize_benchmark, lines 255-293: with a metrics file named, the record
\* is appended, or the file cannot be opened and that is logged
FinMetrics(t) ==
  /\ pc[t] = "fin_metrics"
  /\ \E opened \in BOOLEAN :
       metrics' = IF metrics_file /\ opened THEN Append(metrics, MetricsRecord)
                  ELSE metrics
  /\ pc' = [pc EXCEPT ![t] = "fin_ret"]
  /\ UNCHANGED <<sent, obsVars, aggVars, keyVars, poolVars, locVars, hdlVars, server_fd,
                 total_readings, connected_devices, started, first_read_time,
                 benchmark_target, srv_sum_target, metrics_file, done,
                 finalized, aborted, conn_open, conns_accepted, headers_read,
                 conn_drops, origin_writes, finalize_passed>>

\* finalize_benchmark returns: to add_reading (line 44 of power_processor.cpp)
\* or through process_reading to the loop of handle_client
FinReturn(t) ==
  /\ pc[t] = "fin_ret"
  /\ IF fin_from[t] = "callback"
     THEN /\ pc' = [pc EXCEPT ![t] = "callback_ret"]
          /\ fin_from' = [fin_from EXCEPT ![t] = "none"]
          /\ UNCHANGED <<locVars, data_length, reading, total>>
     ELSE /\ pc' = [pc EXCEPT ![t] = "hc_loop"]
          /\ ClearMessage(t)
  /\ UNCHANGED <<sent, obsVars, aggVars, keyVars, poolVars, srvVars>>

\* a handler end that closes the socket and leaves the gauge as it is
HcClose_KeepsGauge(t) ==
  /\ pc[t] = "hc_close"
  /\ conn_open' = conn_open \ {task[t]}
  /\ ClearMessage(t)
  /\ pc' = [pc EXCEPT ![t] = "task_ret"]
  /\ UNCHANGED <<sent, obsVars, aggVars, keyVars, poolVars, server_fd, total_readings,
                 connected_devices, started, first_read_time, benchmark_target,
                 srv_sum_target, metrics_file, done, finalized, aborted,
                 metrics, conns_accepted, headers_read, conn_drops,
                 origin_writes, finalize_passed>>

\* handle_client, lines 159-160: close(client_socket); connected_devices--
HcClose(t) ==
  /\ pc[t] = "hc_close"
  /\ conn_open' = conn_open \ {task[t]}
  /\ connected_devices' = connected_devices - 1
  /\ ClearMessage(t)
  /\ pc' = [pc EXCEPT ![t] = "task_ret"]
  /\ UNCHANGED <<sent, obsVars, aggVars, keyVars, poolVars, server_fd, total_readings,
                 started, first_read_time, benchmark_target,
                 srv_sum_target, metrics_file, done, finalized, aborted,
                 metrics, conns_accepted, headers_read, conn_drops,
                 origin_writes, finalize_passed>>

\* run, line 103: done is set: the loop ends
RunLoopExit ==
  /\ sub_pc \in {"idle", "enqueue_ret"}
  /\ done
  /\ sub_pc' = "run_exit"
  /\ UNCHANGED <<sent, obsVars, aggVars, keyVars, locVars, hdlVars, srvVars, tasks, stop,
                 sub_task, dtor_pc, pc, task, accepted, rejected,
                 notifications, dequeued, finished>>

\* run, lines 103-107: done is not set: accept is called
RunLoopAccept ==
  /\ sub_pc \in {"idle", "enqueue_ret"}
  /\ ~done
  /\ sub_pc' = "accept"
  /\ UNCHANGED <<sent, obsVars, aggVars, keyVars, locVars, hdlVars, srvVars, tasks, stop,
                 sub_task, dtor_pc, pc, task, accepted, rejected,
                 notifications, dequeued, finished>>

\* run, lines 107-118: accept returns a connection; it is counted and
\* handle_client for it is handed to the pool
AcceptConnection ==
  /\ sub_pc = "accept"
  /\ server_fd = "open"
  /\ conns_accepted < Cardinality(Connections)
  /\ conns_accepted' = conns_accepted + 1
  /\ conn_open' = conn_open \cup {conns_accepted + 1}
  /\ connected_devices' = connected_devices + 1
  /\ sub_task' = conns_accepted + 1
  /\ sub_pc' = "enqueue"
  /\ UNCHANGED <<sent, obsVars, aggVars, keyVars, locVars, hdlVars, tasks, stop, dtor_pc,
                 server_fd, total_readings, started, first_read_time,
                 benchmark_target, srv_sum_target, metrics_file, done,
                 finalized, aborted, metrics, pc, task, accepted, rejected,
                 notifications, dequeued, finished, headers_read, conn_drops,
                 origin_writes, finalize_passed>>

\* run, lines 108-113: accept fails: logged unless done, and the loop goes on
AcceptFails ==
  /\ sub_pc = "accept"
  /\ sub_pc' = "idle"
  /\ UNCHANGED <<sent, obsVars, aggVars, keyVars, locVars, hdlVars, srvVars, tasks, stop,
                 sub_task, dtor_pc, pc, task, accepted, rejected,
                 notifications, dequeued, finished>>

\* main returns after run: ~SmartGridServer calls stop() (lines 300-305),
\* then the members are destroyed, thread_pool first
ServerDestroyed ==
  /\ sub_pc = "run_exit"
  /\ dtor_pc = "alive"
  /\ done' = TRUE
  /\ server_fd' = "closed"
  /\ sub_pc' = "returned"
  /\ dtor_pc' = "dtor"
  /\ UNCHANGED <<sent, obsVars, aggVars, keyVars, locVars, hdlVars, tasks, stop, sub_task,
                 total_readings, connected_devices, started, first_read_time,
                 benchmark_target, srv_sum_target, metrics_file, finalized,
                 aborted, conn_open, metrics, pc, task, accepted, rejected,
                 notifications, dequeued, finished, conns_accepted,
                 headers_read, conn_drops, origin_writes,
                 finalize_passed>>

(***************************************************************************)
(* Spec: the server as main() builds and runs it.  signal_handler tests    *)
(* server_instance, which main never sets, so a signal does not reach      *)
(* stop(): stop() runs in the destructor only.                             *)
(***************************************************************************)
\* the command lines the server is started with: window size (-s), reading
\* target (--benchmark-readings), window-count target (--benchmark-sums),
\* metrics file (--metrics) given or not, pool size (--threads)
Deployments ==
  {[count |-> 1, bench_target |-> 0, bench_sum_target |-> 1, with_metrics |-> TRUE,
    num_threads |-> 2],
   [count |-> 2, bench_target |-> 1, bench_sum_target |-> 0, with_metrics |-> TRUE,
    num_threads |-> 2],
   [count |-> 2, bench_target |-> 1, bench_sum_target |-> 1, with_metrics |-> FALSE,
    num_threads |-> 2],
   [count |-> 2, bench_target |-> 0, bench_sum_target |-> 0, with_metrics |-> FALSE,
    num_threads |-> 1]}

\* the server as main builds it from command line d, with peers that send
\* blocks of the given contents
Started(d, contents) ==
  /\ ProcessorMembers(d.count, d.bench_sum_target, d.bench_sum_target > 0)
  /\ ManagerInit
  /\ PoolInit
  /\ WorkersInit(d.num_threads)
  /\ ServerMembers(d.bench_target, d.bench_sum_target, d.with_metrics)
  /\ sent = contents

Init == \E d \in Deployments : Started(d, WireContents)

\* the steps of a pool worker, in the pool's loop or inside handle_client
WorkerNext(t) ==
  \/ WorkerBlock(t) /\ UNCHANGED notPool
  \/ WorkerSpuriousWake(t) /\ UNCHANGED notPool
  \/ WorkerExit(t) /\ UNCHANGED notPool
  \/ WorkerTake(t) /\ UNCHANGED notPool
  \/ WorkerTaskReturn(t) /\ UNCHANGED notPool
  \/ HcLoopDone(t)
  \/ HcHeaderEmpty(t)
  \/ HcHeaderNoColon(t)
  \/ HcHeaderBadLength(t)
  \/ HcHeaderOk(t)
  \/ HcPayloadShort(t)
  \/ HcPayloadFull(t)
  \/ ManagerStep(t) /\ UNCHANGED notKeys
  \/ HcCatchDecrypt(t)
  \/ HcCatchParse(t)
  \/ HcParsed(t)
  \/ PrStarted(t)
  \/ PrLatch(t)
  \/ PrAdd(t)
  \/ AddClose(t) /\ UNCHANGED notAgg
  \/ AddKeep(t) /\ UNCHANGED notAgg
  \/ AddCallback(t) /\ UNCHANGED notAgg
  \/ AddNoCallback(t) /\ UNCHANGED notAgg
  \/ AddUnlock(t) /\ UNCHANGED notAgg
  \/ SrvCallback(t)
  \/ PrCount(t)
  \/ PrLegacy(t)
  \/ PrReturn(t)
  \/ FinFinalized(t)
  \/ FinDone(t)
  \/ FinMetrics(t)
  \/ FinReturn(t)
  \/ HcClose(t)

\* the steps of the main thread; stop is set by the pool's destructor only,
\* after run has returned, so enqueue never finds it set
MainNext ==
  \/ RunLoopExit
  \/ RunLoopAccept
  \/ AcceptConnection
  \/ AcceptFails
  \/ EnqueueEmplace /\ UNCHANGED notPool
  \/ EnqueueNotify /\ UNCHANGED notPool
  \/ ServerDestroyed
  \/ DtorStop /\ UNCHANGED notPool
  \/ DtorNotifyAll /\ UNCHANGED notPool
  \/ DtorJoinAll /\ UNCHANGED notPool

Next ==
  \/ MainNext
  \/ \E t \in Threads : WorkerNext(t)

Spec == Init /\ [][Next]_vars

\* the threads inside finalize_benchmark that have passed the first exchange
PastGate == {t \in Threads : pc[t] \in {"fin_done", "fin_metrics"}}

\* the state a finalize_benchmark call can change
FinalizeEffects == <<done, finalized, metrics, finalize_passed, server_fd,
                     total_readings, aggVars>>

\* C3: finalization takes effect at most once per run: however many calls
\* of finalize_benchmark are made, from the reading-count path or from the
\* window-count callback, at most one passes the gate and at most one
\* metrics record is written, and a call that is turned away at either
\* exchange returns having changed nothing.
C3_FinalizeOnce ==
  /\ [](/\ finalize_passed <= 1
        /\ Len(metrics) <= 1
        /\ Cardinality(PastGate) <= 1
        /\ (finalize_passed = 1 => done /\ finalized))
  /\ [][\A t \in Threads :
          (pc[t] \in {"finalize_benchmark", "fin_done"} /\ pc'[t] = "fin_ret")
            => UNCHANGED FinalizeEffects]_vars

\* two calls race: one has passed the gate and has not returned, the other
\* was turned away and is returning
C3_Witness ==
  \E t1, t2 \in Threads :
    /\ t1 # t2
    /\ pc[t1] = "fin_metrics"
    /\ pc[t2] = "fin_ret"
    /\ finalize_passed = 1

\* C7: a header line that is empty or has no colon ends the handler's loop:
\* the step that reads it leaves the handler on its way to close the socket,
\* so no further header or payload is read from the connection.
C7_BadHeaderCloses ==
  [][\A t \in Threads :
       (HcHeaderEmpty(t) \/ HcHeaderNoColon(t)) => pc'[t] = "hc_close"]_vars

\* C8: whatever header and payload a peer sends, no error escapes
\* handle_client: the process is never terminated by one and no worker is
\* lost to one.
C8_NoErrorEscapes == ~aborted /\ \A t \in Threads : pc[t] # "terminate"

\* the handlers whose message has just failed to decrypt or to decode
Failing == {t \in Threads :
              \/ pc[t] = "dec_throw"
              \/ pc[t] = "dec_ret" /\ TooShort(outcome[t].bytes)}

\* C9: a message that fails to decrypt or to decode is dropped and the
\* handler goes back to waiting for a header on the same connection: the
\* socket stays open, nothing of the reading reaches the counters or the
\* aggregator, and the handler is at the top of its loop.  The steps meant
\* are the handler's own: std::terminate, which another connection's header
\* can bring about, ends every handler where it stands.
C9_ErrorKeepsConnection ==
  /\ [](\A t \in Threads :
          pc[t] \in {"dec_throw", "dec_ret", "hc_loop"} => task[t] \in conn_open)
  /\ [][\A t \in Failing :
          (pc'[t] # pc[t] /\ ~aborted')
            => /\ pc'[t] = "hc_loop"
               /\ task'[t] = task[t]
               /\ task[t] \in conn_open'
               /\ conn_drops'[task[t]] = conn_drops[task[t]] + 1
               /\ UNCHANGED <<total_readings, aggVars>>]_vars

\* a message of a connection that dropped an earlier one has been decoded,
\* added to the aggregator and counted
C9_Witness ==
  \E t \in Threads :
    /\ pc[t] = "pr_counted"
    /\ conn_drops[task[t]] >= 1
    /\ task[t] \in conn_open
    /\ total_readings >= 1

\* the workers inside finalize_benchmark
InFinalize ==
  {t \in Threads : pc[t] \in {"finalize_benchmark", "fin_done", "fin_metrics", "fin_ret"}}

\* the workers inside process_reading, finalize_benchmark included
InProcessReading ==
  {t \in Threads :
     pc[t] \in {"process_reading", "pr_latch", "pr_add", "add_pushed", "add_closed",
                "callback", "callback_ret", "add_ret", "pr_counted"}}
  \cup InFinalize

\* C13: once finalization has taken effect the accept loop needs no further
\* connection to exit, because finalization itself closes the listening
\* socket: when the call that passed the gate has returned, the listening
\* socket is closed.
C13_FinalizeClosesListener ==
  (finalize_passed = 1 /\ InFinalize = {}) => server_fd = "closed"

\* C14: after finalization has set the shutdown flag a handler keeps serving
\* its connection and ends only when the peer closes it: a handler leaves
\* its loop for close() only on reading an empty header.
C14_ServedUntilPeerCloses ==
  [][\A t \in Threads :
       (pc[t] \in {"task", "hc_loop"} /\ pc'[t] = "hc_close") => HcHeaderEmpty(t)]_vars

\* C15: the two targets act independently: with a reading-count target R > 0
\* the benchmark is finalized once total_readings has reached R, and with a
\* window-count target T > 0 once T windows have closed, whatever the other
\* target is; stated for the states in which no worker is still inside
\* process_reading and the process has not been terminated.
C15_TargetsIndependent ==
  (InProcessReading = {} /\ ~aborted)
    => /\ (benchmark_target > 0 /\ total_readings >= benchmark_target) => done
       /\ (srv_sum_target > 0 /\ total_sums >= srv_sum_target) => done

\* C17: no reading is lost or counted twice: while no worker is inside
\* process_reading (and the process has not been terminated) total_readings
\* is the number of messages decrypted and decoded, and is
\* target_count * total_sums + current_count; total_readings never decreases.
C17_NoReadingLost ==
  /\ []((InProcessReading = {} /\ ~aborted)
          => /\ total_readings = decoded
             /\ total_readings = target_count * total_sums + current_count)
  /\ [][total_readings' >= total_readings]_vars

\* two readings have gone through process_reading and closed a window of 2
C17_Witness ==
  /\ InProcessReading = {}
  /\ ~aborted
  /\ target_count = 2
  /\ total_readings = 2
  /\ total_sums = 1

\* the connections whose handler has ended: handle_client has returned
Ended ==
  {c \in Connections :
     c \in finished \/ \E t \in Threads : task[t] = c /\ pc[t] = "task_ret"}

\* C19: the gauge of active connections is the number of accepted
\* connections whose handler has not ended, and is never negative.
C19_GaugeMatches ==
  ~aborted => /\ connected_devices = conns_accepted - Cardinality(Ended)
              /\ connected_devices >= 0

\* a handler ended by the global shutdown: with a window of 1 and a target of
\* one window the first reading finalizes the benchmark inside the handler,
\* which then finds done set at its loop test
C19_Witness ==
  /\ ~aborted
  /\ target_count = 1
  /\ srv_sum_target = 1
  /\ conns_accepted = 1
  /\ total_readings = 1
  /\ 1 \in Ended
  /\ connected_devices = 0

\* the workers that won the started exchange and have not stored the origin yet
AtLatch == {t \in Threads : pc[t] = "pr_latch"}

\* C22: first_read_time is stored exactly once per run, by the one
\* process_reading call that wins the started exchange, however many
\* workers process their first readings at the same time; once stored it is
\* never stored again.
C22_OriginOnce ==
  /\ [](/\ origin_writes <= 1
        /\ Cardinality(AtLatch) <= 1
        /\ origin_writes = 1 => (started /\ first_read_time = "set" /\ AtLatch = {})
        /\ (started /\ ~aborted) => (origin_writes = 1 \/ AtLatch # {}))
  /\ [][first_read_time = "set"
          => first_read_time' = "set" /\ origin_writes' = origin_writes]_vars

\* two workers are in their first process_reading at once: one won the
\* exchange and stored the origin, the other lost it and stored nothing
C22_Witness ==
  \E t1, t2 \in Threads :
    /\ t1 # t2
    /\ pc[t1] = "pr_add"
    /\ pc[t2] = "pr_add"
    /\ total_readings = 0
    /\ origin_writes = 1

\* C23: once the shutdown flag is true no further connection is counted in
\* the gauge or submitted to the worker pool, also when the accept call was
\* already blocked when the flag was set.
C23_NoAcceptAfterDone ==
  [][done => /\ connected_devices' <= connected_devices
             /\ accepted' = accepted]_vars

\* the orchestrator and aggregator state a processed reading changes
ReadingEffects == <<total_readings, power_readings, current_count, total_sums,
                    started, first_read_time, origin_writes, done>>

\* the handlers that are not inside process_reading: reading a header or a
\* payload, decrypting, decoding, or dropping a failed message
OutsideProcessReading ==
  {t \in Threads : task[t] # NoTask} \ InProcessReading

\* C24: a message that fails at any stage (wrong ciphertext length,
\* decryption failure, plaintext too short) leaves total_readings, the
\* aggregator's buffer, count and total_sums, the clock-origin latch and the
\* shutdown flag as they were: no step a handler takes outside
\* process_reading changes them, and the step that drops a failed message
\* leaves the handler outside process_reading.
C24_FailedMessageNoEffect ==
  /\ [][\A t \in OutsideProcessReading :
          pc'[t] # pc[t] => UNCHANGED ReadingEffects]_vars
  /\ [][\A t \in Failing :
          pc'[t] # pc[t] => pc'[t] \notin {"process_reading"} \cup
                              {"pr_latch", "pr_add", "add_pushed"}]_vars

\* one connection has had two messages dropped and nothing has been counted,
\* buffered or latched
C24_Witness ==
  \E c \in Connections :
    /\ conn_drops[c] = 2
    /\ total_readings = 0
    /\ power_readings = <<>>
    /\ current_count = 0
    /\ total_sums = 0
    /\ ~started
    /\ first_read_time = "unset"
    /\ ~done

\* the connections whose handler is running: handed to a worker, not returned
Handled == {dequeued[i] : i \in 1..Len(dequeued)} \ finished

\* the steps in which worker t starts the handler of a connection
Starts(t) == task'[t] # task[t] /\ task'[t] # NoTask

\* C26: the connections being handled are never more than the pool's
\* workers; a worker runs one handler at a time and a connection is handled
\* by one worker, once, so all its messages are processed by that worker;
\* and a worker starts a handler only when it is running none, so a
\* connection queued while every worker was busy is started only after a
\* running handler has ended.
C26_OneHandlerPerWorker ==
  /\ [](/\ Cardinality(Handled) <= Cardinality(Workers)
        /\ \A c \in Connections :
             Cardinality({i \in 1..Len(dequeued) : dequeued[i] = c}) <= 1
        /\ \A t1, t2 \in Threads :
             (t1 # t2 /\ task[t1] # NoTask) => task[t1] # task[t2]
        /\ \A c \in Handled : \E t \in Workers : task[t] = c)
  /\ [][\A t \in Threads :
          Starts(t) => /\ task[t] = NoTask
                       /\ pc[t] = "worker_loop"
                       /\ Cardinality(Handled) < Cardinality(Workers)]_vars

\* a pool of one worker: the second connection has been accepted and queued
\* while the one worker is in the middle of a message of the first
C26_Witness ==
  /\ Cardinality(Workers) = 1
  /\ tasks = <<2>>
  /\ Handled = {1}
  /\ \E t \in Workers : task[t] = 1 /\ pc[t] = "pr_add"

\* the handlers that hold a message: header read, reading not yet processed
\* or dropped
HoldsMessage ==
  {t \in Threads : task[t] # NoTask /\ pc[t] \notin {"task", "hc_loop", "hc_close", "task_ret"}}

\* C27: the readings of a connection reach process_reading in the order
\* their messages arrived: the connection is read by one handler, which
\* takes the next header from the stream only when it holds no message, so
\* the processing of a message never begins before the processing of the
\* one before it on that connection has finished.
C27_ConnectionInOrder ==
  /\ [](/\ \A c \in Connections : Cardinality({t \in Threads : task[t] = c}) <= 1
        /\ InProcessReading \subseteq HoldsMessage
        /\ \A t \in Threads \ HoldsMessage : reading[t] = NoReading)
  /\ [][(headers_read' # headers_read /\ ~aborted')
          => \A t \in HoldsMessage : pc'[t] = pc[t] /\ reading'[t] = reading[t]]_vars

\* the second message of the only connection enters process_reading after
\* the first has been counted
C27_Witness ==
  \E t \in Threads :
    /\ pc[t] = "process_reading"
    /\ conns_accepted = 1
    /\ headers_read = 2
    /\ total_readings = 1
    /\ InProcessReading = {t}

\* the step in which the call of thread t that passed the gate leaves the
\* metrics block of finalize_benchmark
MetricsBlockLeft(t) == pc[t] = "fin_metrics" /\ pc'[t] # pc[t] /\ ~aborted'

\* C29: a metrics file that cannot be opened never blocks shutdown: the call
\* that passed the gate has set done before it comes to the file, and with
\* or without a record written it leaves done set and returns normally,
\* changing nothing but the file.
C29_MetricsFailureHarmless ==
  /\ []((finalize_passed = 1 \/ \E t \in Threads : pc[t] = "fin_metrics") => done)
  /\ [][\A t \in Threads :
          MetricsBlockLeft(t)
            => /\ pc'[t] = "fin_ret"
               /\ done'
               /\ metrics' \in {metrics, Append(metrics, MetricsRecord)}
               /\ UNCHANGED <<finalized, finalize_passed, server_fd, total_readings,
                              connected_devices, conn_open, aggVars>>]_vars

\* a metrics file was named, the call that passed the gate has returned and
\* no record was written: the file could not be opened; done is set
C29_Witness ==
  /\ metrics_file
  /\ finalize_passed = 1
  /\ InFinalize = {}
  /\ metrics = <<>>
  /\ done
  /\ ~aborted

\* finalize_benchmark gated by one atomic test-and-set of done, as seen on
\* done and the metrics file: the test-and-set that finds done false sets it
OneGuardExchange == ~done /\ done' /\ metrics' = metrics

\* ... and the call that made it writes the one record, if a file is named
OneGuardWrite ==
  /\ done /\ done'
  /\ metrics_file
  /\ metrics = <<>>
  /\ metrics' = <<MetricsRecord>>

ElapsedComputed(t) == pc[t] \in {"callback", "pr_counted"} /\ pc'[t] = "finalize_benchmark"

\* C31: whenever finalization computes the elapsed time, first_read_time has
\* been stored: no thread reads it after started became true and before the
\* thread that won the exchange stored the origin.
C31_OriginSetWhenRead ==
  [][\A t \in Threads : ElapsedComputed(t) => first_read_time = "set"]_vars

\* C32: the metrics record is consistent with the aggregator: the
\* total_readings it records is at least target_count times the total_sums
\* it records, also when the window-count callback triggers finalization.
C32_RecordConsistent ==
  \A i \in 1..Len(metrics) :
    metrics[i].total_readings >= target_count * metrics[i].total_sums

(***************************************************************************)
(* SpecLive: the server with both finalization paths, under the scheduling *)
(* the code relies on: a worker that is inside process_reading and is not  *)
(* waiting for readings_mutex keeps running, and a worker waiting for the  *)
(* mutex gets it once it stays free.  Nothing is assumed of the peers or   *)
(* of the accept loop.                                                     *)
(***************************************************************************)
LiveDeployments ==
  {[count |-> 1, bench_target |-> 0, bench_sum_target |-> 1, with_metrics |-> FALSE,
    num_threads |-> 2],
   [count |-> 2, bench_target |-> 2, bench_sum_target |-> 0, with_metrics |-> FALSE,
    num_threads |-> 1]}

\* the peers send good records and records that are too short
LiveContents == {Padded(SampleRecord), Padded(ShortRecord)}

LiveInit == \E d \in LiveDeployments : Started(d, LiveContents)

\* a step of worker t inside process_reading, add_reading, the callback or
\* finalize_benchmark
Processing(t) == t \in InProcessReading /\ WorkerNext(t)

SpecLive ==
  /\ LiveInit
  /\ [][Next]_vars
  /\ \A t \in Threads : WF_vars(Processing(t))

\* the workers waiting for readings_mutex at the head of add_reading
WaitsForLock == {t \in Threads : pc[t] = "pr_add"}

\* C33: the callback invoked inside the critical section of add_reading
\* never deadlocks: finalize_benchmark run from the callback holds the lock
\* it was called under and waits for no lock, so every add_reading call
\* releases the lock in the end, and every worker waiting for the lock
\* gets past it; std::terminate ends the process, which is no deadlock.
C33_CallbackNoDeadlock ==
  /\ [](\A t \in InFinalize : fin_from[t] = "callback" => readings_mutex = t)
  /\ (readings_mutex # NoThread) ~> (readings_mutex = NoThread \/ aborted)
  /\ \A t \in Threads : (t \in WaitsForLock) ~> (t \notin WaitsForLock \/ aborted)

\* finalize_benchmark runs from the callback, under the lock, while another
\* worker waits for the lock
C33_Witness ==
  \E t1, t2 \in Threads :
    /\ t1 # t2
    /\ pc[t1] = "fin_metrics"
    /\ fin_from[t1] = "callback"
    /\ readings_mutex = t1
    /\ t2 \in WaitsForLock

(***************************************************************************)
(* SpecAgg: NumThreads threads call add_reading on one processor; the      *)
(* callback registered is an opaque function that returns.                 *)
(***************************************************************************)
AggInit ==
  /\ ServerIdle
  /\ \E count \in 1..MaxWindow : ProcessorInit(count)
  /\ ManagerInit
  /\ PoolInit
  /\ LocalsInit

\* the one-time configuration call, made before readings flow
AggSetTarget ==
  /\ added = <<>>
  /\ ~callback_set
  /\ \A t \in Threads : pc[t] = "idle"
  /\ \E target_sums \in 0..MaxSumTarget : set_benchmark_target(target_sums)
  /\ UNCHANGED <<pc, notAgg>>

\* a thread calls add_reading(p), for the first time or after a call returned
AggCall(t) ==
  /\ pc[t] \in {"idle", "add_ret"}
  /\ Len(added) < MaxCalls
  /\ \E p \in Powers : AddPush(t, p)
  /\ UNCHANGED notAgg

\* the opaque callback runs and returns
AggCallbackBody(t) ==
  /\ pc[t] = "callback"
  /\ pc' = [pc EXCEPT ![t] = "callback_ret"]
  /\ UNCHANGED <<aggVars, notAgg>>

AggNext ==
  \/ AggSetTarget
  \/ \E t \in Threads : AggCall(t)
  \/ \E t \in Threads : AddClose(t) /\ UNCHANGED notAgg
  \/ \E t \in Threads : AddKeep(t) /\ UNCHANGED notAgg
  \/ \E t \in Threads : AddCallback(t) /\ UNCHANGED notAgg
  \/ \E t \in Threads : AddNoCallback(t) /\ UNCHANGED notAgg
  \/ \E t \in Threads : AggCallbackBody(t)
  \/ \E t \in Threads : AddUnlock(t) /\ UNCHANGED notAgg

SpecAgg == AggInit /\ [][AggNext]_vars

\* add_reading calls whose window test (line 25) has been made
Tested == Len(added) - Cardinality({t \in Threads : pc[t] = "add_pushed"})

\* the threads between a window close and the unlock that follows it
AfterClose == {t \in Threads : pc[t] \in {"add_closed", "callback", "callback_ret"}}

\* C1: in lock-acquisition order the k-th add_reading call closes a window
\* iff k is a multiple of the window size; the sum emitted at the i-th close
\* is the sum of the W values added since the previous close; and right
\* after a close the buffer is empty and the count is zero.
C1_WindowEveryW ==
  /\ Len(emitted) = Tested \div target_count
  /\ \A i \in 1..Len(emitted) :
       /\ emitted[i].k = i * target_count
       /\ emitted[i].sum =
            SumSeq(SubSeq(added, (i - 1) * target_count + 1, i * target_count))
  /\ AfterClose # {} => power_readings = <<>> /\ current_count = 0

\* C1 witness: window size 3 fed 100, 200, 300 by two threads: one window, sum 600
C1_Witness ==
  /\ target_count = 3
  /\ added = <<100, 200, 300>>
  /\ emitted = <<[k |-> 3, sum |-> 600, n |-> 1]>>
  /\ power_readings = <<>> /\ current_count = 0 /\ total_sums = 1
  /\ AfterClose # {}

\* C2: with a target T > 0 and the callback registered before any reading,
\* the completion callback is invoked exactly once over the whole run, so
\* never more than once, also when windows close after the T-th.
C2_CallbackOnce == callback_calls <= 1

\* C16: the buffered count is at most the window size and is the number of
\* values in the buffer; and while no add_reading call is inside its
\* critical section the count is below the window size.
C16_CountBounded ==
  /\ current_count <= target_count
  /\ current_count = Len(power_readings)
  /\ readings_mutex = NoThread => current_count < target_count

\* inside the critical section the count has reached a window size of 2 or more
C16_Witness ==
  \E t \in Threads :
    /\ pc[t] = "add_pushed"
    /\ readings_mutex = t
    /\ target_count >= 2
    /\ current_count = target_count

\* the threads that are inside the completion callback
InCallback == {t \in Threads : pc[t] \in {"callback", "callback_ret"}}

\* C20: the completion callback runs while its thread still holds the lock
\* of the add_reading call that closed a window, with the buffer empty, the
\* count zero and total_sums at or above the target.
C20_CallbackUnderLock ==
  \A t \in InCallback :
    /\ readings_mutex = t
    /\ power_readings = <<>>
    /\ current_count = 0
    /\ benchmark_sum_target > 0
    /\ total_sums >= benchmark_sum_target

\* a callback is running while another thread waits to add a reading
C20_Witness ==
  \E t1, t2 \in Threads :
    /\ pc[t1] = "callback"
    /\ pc[t2] \in {"idle", "add_ret"}
    /\ t1 # t2
    /\ total_sums >= 1
    /\ Len(added) >= 2

\* the threads inside the critical section of add_reading
InCritical ==
  {t \in Threads : pc[t] \in {"add_pushed", "add_closed", "callback", "callback_ret"}}

\* C21: window closes are totally ordered by the critical section of
\* add_reading: the i-th close emits index i, total_sums is the number of
\* closes and grows by exactly 1 at each close and at no other step, and at
\* most one thread is inside the critical section, which it holds.
C21_ClosesOrdered ==
  /\ [](/\ \A i \in 1..Len(emitted) : emitted[i].n = i
        /\ total_sums = Len(emitted)
        /\ Cardinality(InCritical) <= 1
        /\ \A t \in InCritical : readings_mutex = t)
  /\ [][IF Len(emitted') # Len(emitted)
          THEN total_sums' = total_sums + 1 /\ Len(emitted') = Len(emitted) + 1
          ELSE total_sums' = total_sums]_vars

\* two windows have closed, the second just now, while another thread that
\* has already added a reading waits for the lock
C21_Witness ==
  \E t1, t2 \in Threads :
    /\ t1 # t2
    /\ pc[t1] = "add_closed"
    /\ pc[t2] = "add_ret"
    /\ Len(emitted) = 2
    /\ emitted[2].n = 2

(***************************************************************************)
(* SpecKeys: NumThreads threads call decrypt_data and get_or_generate_key  *)
(* on one AESManager.                                                      *)
(***************************************************************************)
KeysInit ==
  /\ ServerIdle
  /\ ProcessorInit(1)
  /\ ManagerInit
  /\ PoolInit
  /\ LocalsInit

\* the call a thread made has returned or thrown: its locals are gone
KeysReturn(t) ==
  /\ \/ pc[t] \in {"dec_ret", "dec_throw"}
     \/ pc[t] = "get_key_ret" /\ encrypted_data[t] = NoData
  /\ pc' = [pc EXCEPT ![t] = "idle"]
  /\ device_id' = [device_id EXCEPT ![t] = <<>>]
  /\ encrypted_data' = [encrypted_data EXCEPT ![t] = NoData]
  /\ key' = [key EXCEPT ![t] = NoKey]
  /\ outcome' = [outcome EXCEPT ![t] = NoOutcome]
  /\ UNCHANGED <<notKeys, keyVars>>

\* a thread calls decrypt_data(id, data)
KeysCallDecrypt(t) ==
  /\ pc[t] = "idle"
  /\ \E id \in DeviceIds, data \in Ciphertexts :
       /\ device_id' = [device_id EXCEPT ![t] = id]
       /\ encrypted_data' = [encrypted_data EXCEPT ![t] = data]
  /\ pc' = [pc EXCEPT ![t] = "decrypt_data"]
  /\ UNCHANGED <<notKeys, keyVars, key, outcome>>

\* a thread calls get_or_generate_key(id)
KeysCallGetKey(t) ==
  /\ pc[t] = "idle"
  /\ \E id \in DeviceIds : device_id' = [device_id EXCEPT ![t] = id]
  /\ pc' = [pc EXCEPT ![t] = "get_key"]
  /\ UNCHANGED <<notKeys, keyVars, encrypted_data, key, outcome>>

KeysNext ==
  \/ \E t \in Threads : KeysCallDecrypt(t)
  \/ \E t \in Threads : KeysCallGetKey(t)
  \/ \E t \in Threads : KeysReturn(t)
  \/ \E t \in Threads : DecLengthError(t) /\ UNCHANGED notKeys
  \/ \E t \in Threads : DecGetKey(t) /\ UNCHANGED notKeys
  \/ \E t \in Threads : GetKeySharedLock(t) /\ UNCHANGED notKeys
  \/ \E t \in Threads : GetKeySharedHit(t) /\ UNCHANGED notKeys
  \/ \E t \in Threads : GetKeySharedMiss(t) /\ UNCHANGED notKeys
  \/ \E t \in Threads : GetKeyUniqueLock(t) /\ UNCHANGED notKeys
  \/ \E t \in Threads : GetKeyUniqueHit(t) /\ UNCHANGED notKeys
  \/ \E t \in Threads : GetKeyDerive(t) /\ UNCHANGED notKeys
  \/ \E t \in Threads : DecCipher(t) /\ UNCHANGED notKeys

SpecKeys == KeysInit /\ [][KeysNext]_vars

\* C10: decrypt_data given data whose length is not 16 throws the length
\* error at once: the call never reaches get_or_generate_key or the cipher,
\* and the step that throws leaves the key cache as it was.
C10_LengthCheckedFirst ==
  /\ [](\A t \in Threads :
          encrypted_data[t] # NoData /\ encrypted_data[t].len # BlockLen =>
            /\ pc[t] \in {"decrypt_data", "dec_throw"}
            /\ key[t] = NoKey
            /\ pc[t] = "dec_throw" => outcome[t] = Thrown("length_error"))
  /\ [][\A t \in Threads :
          pc[t] = "decrypt_data" /\ encrypted_data[t].len # BlockLen
            /\ pc'[t] # pc[t] =>
              /\ pc'[t] = "dec_throw"
              /\ device_keys' = device_keys
              /\ derivations' = derivations
              /\ returned' = returned
              /\ keys_readers' = keys_readers /\ keys_writer' = keys_writer]_vars

\* C10 witness: data of 15 bytes and of 17 bytes were refused for devices
\* that have no key in the cache
C10_Witness ==
  \E t1, t2 \in Threads :
    /\ pc[t1] = "dec_throw" /\ pc[t2] = "dec_throw"
    /\ encrypted_data[t1].len = BlockLen - 1
    /\ encrypted_data[t2].len = BlockLen + 1
    /\ outcome[t1] = Thrown("length_error")
    /\ outcome[t2] = Thrown("length_error")
    /\ device_keys[device_id[t1]] = NoKey
    /\ device_keys[device_id[t2]] = NoKey

Cached == {id \in DeviceIds : device_keys[id] # NoKey}

\* C25: once the key cache holds an entry for a device identifier the entry
\* is never removed and its key never changes, whatever calls of
\* get_or_generate_key for that or other identifiers follow.
C25_CacheEntryStable ==
  [][\A id \in Cached : device_keys'[id] = device_keys[id]]_vars

\* both identifiers are cached, each derived once, and calls for both have
\* returned the cached keys
C25_Witness ==
  /\ Cached = DeviceIds
  /\ \A id \in DeviceIds : derivations[id] = 1 /\ device_keys[id] = DerivedKey(id)
  /\ \E t1, t2 \in Threads :
       /\ pc[t1] = "get_key_ret" /\ pc[t2] = "get_key_ret"
       /\ device_id[t1] # device_id[t2]
       /\ key[t1] = device_keys[device_id[t1]]
       /\ key[t2] = device_keys[device_id[t2]]

(***************************************************************************)
(* SpecPool: a pool of NumThreads workers, one thread that submits tasks   *)
(* 1, 2, ... and one that destroys the pool; a task is a call that returns.*)
(***************************************************************************)
PoolSpecInit ==
  /\ ServerIdle
  /\ ProcessorInit(1)
  /\ ManagerInit
  /\ PoolInit
  /\ WorkersInit(NumThreads)

\* the submitter calls enqueue with the next task, while the pool exists
PoolSubmit ==
  /\ sub_pc \in {"idle", "enqueue_ret"}
  /\ dtor_pc # "dtor_done"
  /\ Cardinality(accepted \cup rejected) < MaxTasks
  /\ sub_task' = Cardinality(accepted \cup rejected) + 1
  /\ sub_pc' = "enqueue"
  /\ UNCHANGED <<tasks, stop, dtor_pc, task, accepted, rejected, notifications,
                 dequeued, finished, pc, notPool>>

\* the task a worker called runs and returns
PoolTaskBody(t) ==
  /\ pc[t] = "task"
  /\ pc' = [pc EXCEPT ![t] = "task_ret"]
  /\ UNCHANGED <<poolVars, notPool>>

\* the owner starts destroying the pool
PoolDestroy ==
  /\ dtor_pc = "alive"
  /\ dtor_pc' = "dtor"
  /\ UNCHANGED <<tasks, stop, sub_pc, sub_task, task, accepted, rejected,
                 notifications, dequeued, finished, pc, notPool>>

\* the destructor returns; the owner lets no enqueue call run beyond the
\* pool's lifetime
PoolDtorJoin ==
  /\ sub_pc \in {"idle", "enqueue_ret"}
  /\ DtorJoinAll
  /\ UNCHANGED notPool

PoolNext ==
  \/ PoolSubmit
  \/ PoolDestroy
  \/ EnqueueRefuse /\ UNCHANGED notPool
  \/ EnqueueEmplace /\ UNCHANGED notPool
  \/ EnqueueNotify /\ UNCHANGED notPool
  \/ DtorStop /\ UNCHANGED notPool
  \/ DtorNotifyAll /\ UNCHANGED notPool
  \/ PoolDtorJoin
  \/ \E t \in Threads : WorkerBlock(t) /\ UNCHANGED notPool
  \/ \E t \in Threads : WorkerSpuriousWake(t) /\ UNCHANGED notPool
  \/ \E t \in Threads : WorkerExit(t) /\ UNCHANGED notPool
  \/ \E t \in Threads : WorkerTake(t) /\ UNCHANGED notPool
  \/ \E t \in Threads : PoolTaskBody(t)
  \/ \E t \in Threads : WorkerTaskReturn(t) /\ UNCHANGED notPool

SpecPool == PoolSpecInit /\ [][PoolNext]_vars

\* how often a task was taken from the queue
TimesTaken(id) == Cardinality({i \in 1..Len(dequeued) : dequeued[i] = id})

\* the tasks workers are running
Running == {task[t] : t \in {u \in Threads : pc[u] \in {"task", "task_ret"}}}

\* C5: a task enqueued before stop is taken at most once; a worker has
\* exited only if stop is set and the queue is empty; and when the pool's
\* shutdown has ended every task enqueued was executed exactly once.
C5_NoTaskDropped ==
  /\ \A id \in accepted : TimesTaken(id) <= 1
  /\ (\E t \in Threads : pc[t] = "worker_exit") => stop /\ tasks = <<>>
  /\ dtor_pc = "dtor_done" =>
       \A id \in accepted : TimesTaken(id) = 1 /\ id \in finished

\* C5 witness: shutdown ended after workers ran several tasks
C5_Witness ==
  /\ dtor_pc = "dtor_done"
  /\ Cardinality(accepted) >= 2
  /\ finished = accepted
  /\ \A t \in Threads : pc[t] = "worker_exit"

\* C6: an enqueue call made after stop was set leaves the queue as it was,
\* makes no notification and wakes no worker, and its task is never queued,
\* taken or run.
C6_EnqueueAfterStopNoOp ==
  /\ [](\A id \in rejected :
          /\ id \notin accepted
          /\ id \notin Running
          /\ TimesTaken(id) = 0
          /\ \A i \in 1..Len(tasks) : tasks[i] # id)
  /\ [][sub_pc = "enqueue" /\ stop /\ sub_pc' # sub_pc =>
          /\ sub_pc' = "enqueue_ret"
          /\ tasks' = tasks
          /\ notifications' = notifications
          /\ pc' = pc]_vars

\* C6 witness: a task was refused while a worker was blocked in wait
C6_Witness ==
  /\ rejected # {}
  /\ sub_pc = "enqueue_ret"
  /\ stop
  /\ Blocked # {}

\* C28: workers take tasks from the queue in the order they were enqueued:
\* what has been taken followed by what is still queued is the sequence of
\* the tasks enqueued, in enqueue order and each once; so a task is taken by
\* one worker only, and of two tasks one worker ran, the one enqueued
\* earlier was taken first.  The submitter numbers its tasks 1, 2, 3, ... in
\* the order of its enqueue calls, so enqueue order is the order of the ids.
C28_FifoDequeue ==
  LET order == dequeued \o tasks
  IN  /\ Len(order) = Cardinality(accepted)
      /\ \A i \in 1..Len(order) : order[i] \in accepted
      /\ \A i, j \in 1..Len(order) : i < j => order[i] < order[j]
      /\ \A t1, t2 \in Threads :
           (t1 # t2 /\ task[t1] # NoTask) => task[t1] # task[t2]

\* three tasks were enqueued while no worker had taken any, and have since
\* been taken in that order, two of them running at once on different workers
C28_Witness ==
  \E t1, t2 \in Threads :
    /\ t1 # t2
    /\ dequeued = <<1, 2, 3>>
    /\ task[t1] = 2 /\ pc[t1] = "task"
    /\ task[t2] = 3 /\ pc[t2] = "task"

(***************************************************************************)
(* SpecReading: the server with one worker, and peers that send records of *)
(* every length up to one block and of voltages around the alert limits.   *)
(***************************************************************************)
\* SampleRecord with another raw voltage
VoltageRecord(v) == [SampleRecord EXCEPT ![7] = v \div 256, ![8] = v % 256]
\* raw voltages (volts * 10) at and next to the limits of line 234
Voltages == {999, 1000, 1325, 1400, 1401}
\* plaintexts of 0 to 14 bytes
Plaintexts ==
  {VoltageRecord(v) : v \in Voltages}
  \cup {SubSeq(SampleRecord, 1, n) : n \in 0..(RecordLen - 1)}
  \cup {SampleRecord \o <<9>>}
ReadingContents == {Padded(bytes) : bytes \in Plaintexts}

ReadingDeployments ==
  {[count |-> 2, bench_target |-> 0, bench_sum_target |-> 1, with_metrics |-> TRUE,
    num_threads |-> 1],
   [count |-> 1, bench_target |-> 2, bench_sum_target |-> 0, with_metrics |-> FALSE,
    num_threads |-> 1]}

ReadingInit == \E d \in ReadingDeployments : Started(d, ReadingContents)

SpecReading == ReadingInit /\ [][Next]_vars

\* the big-endian value of the n bytes at offset off of data
BigEndian(data, off, n) ==
  IF n = 1 THEN data[off + 1]
  ELSE IF n = 2 THEN data[off + 1] * 256 + data[off + 2]
  ELSE ((data[off + 1] * 256 + data[off + 2]) * 256 + data[off + 3]) * 256
         + data[off + 4]

\* C11: parse_binary_reading fails with the size error for every plaintext
\* shorter than 13 bytes: the message is dropped, no reading is returned,
\* and no byte past the end of the plaintext is read.
C11_ShortPlaintextFails ==
  /\ [](oob_reads = 0)
  /\ [][\A t \in Threads :
          (/\ pc[t] = "dec_ret"
           /\ Len(outcome[t].bytes) < RecordLen
           /\ pc'[t] # pc[t]
           /\ ~aborted')
            => pc'[t] = "hc_loop" /\ decoded' = decoded]_vars

\* C12: a 13-byte record is decoded big-endian at offsets 0, 6, 8, 10 and
\* 12 with the documented scaling: timestamp and power unchanged, and
\* 10 * voltage, 10 * current and 10 * frequency equal to the raw values
\* (the reading holds volts * 10, amps * 100 and the frequency as decoded).
C12_DecodeScaling ==
  \A t \in Threads :
    (pc[t] = "process_reading" /\ Len(outcome[t].bytes) = RecordLen)
      => /\ reading[t].timestamp = BigEndian(outcome[t].bytes, 0, 4)
         /\ reading[t].voltage_x10 = BigEndian(outcome[t].bytes, 6, 2)
         /\ reading[t].current_x100 = 10 * BigEndian(outcome[t].bytes, 8, 2)
         /\ reading[t].power = BigEndian(outcome[t].bytes, 10, 2)
         /\ 10 * reading[t].frequency = BigEndian(outcome[t].bytes, 12, 1)

\* the anomaly of a reading: power negative, or voltage below 100 V or above
\* 140 V (voltage held as volts * 10)
OutOfRange(r) == r.power < 0 \/ r.voltage_x10 < 100 * 10 \/ r.voltage_x10 > 140 * 10

\* the step in which process_reading passes its anomaly test for thread t
AnomalyTested(t) == pc[t] = "pr_counted" /\ pc'[t] # "pr_counted" /\ ~aborted'

\* C18: for a decoded reading process_reading raises the anomaly alert once
\* if power is negative or voltage is below 100 V or above 140 V, and does
\* not raise it otherwise (100 V and 140 V are not anomalies); the alert is
\* raised nowhere else and changes no counter, aggregator or connection state.
C18_AnomalySignal ==
  /\ [][\A t \in Threads :
          AnomalyTested(t)
            => /\ alerts' = alerts + (IF OutOfRange(reading[t]) THEN 1 ELSE 0)
               /\ UNCHANGED <<total_readings, connected_devices, decoded,
                              conn_open, conns_accepted, aggVars>>]_vars
  /\ [][alerts' # alerts => \E t \in Threads : AnomalyTested(t)]_vars

\* one alert has been raised for an earlier reading, and a reading of exactly
\* 140 V stands at the anomaly test
C18_Witness ==
  \E t \in Threads :
    /\ pc[t] = "pr_counted"
    /\ reading[t].voltage_x10 = 1400
    /\ alerts = 1
    /\ total_readings = 2

====
